---- MODULE Spec2Model ----
(***************************************************************************)
(* Flat-text router config -> NETCONF XML converter.                       *)
(*                                                                         *)
(* The repository holds two converters with the same public interface:     *)
(*   netconfutils/netconfconverter.py      ("netconfutils"), which reads a *)
(*       ConfigModel (namespace_map, container_map, identity_map), and     *)
(*   ote_utils/netconfutils/netconfconverter.py ("ote_utils"), which walks *)
(*       a consolidated model tree and a class-level IDENTITY_MAP.         *)
(* Both are modelled; `impl` records which one a behaviour runs.           *)
(*                                                                         *)
(* One compile (convert_config_to_netconf_xml) is three kinds of step:     *)
(* Begin (the root element is started), one step per config line (the body *)
(* of the for loop) and End (the root is ended and the builder closed).    *)
(* The lines of the first compile are drawn one at a time from Lines; a    *)
(* second compile on the same converter then replays the same config_list. *)
(***************************************************************************)
EXTENDS Integers, Sequences, FiniteSets, TLC

\* Longest config (in lines, comments and blank lines included) that is fed
\* to a compile.
MaxLines == 3

\* The longest config each of two concurrent compiles is given.
MaxConcLines == 2

\* The longest config that is given in both input forms.
MaxFormLines == 3

\* The number of times load_config_model is called on one converter.
MaxLoads == 2

\* The number of lines of a config of lines with values.
MaxValueLines == 2

(***************************************************************************)
(* Text: tokens and lines.                                                 *)
(*                                                                         *)
(* A token is a maximal run of non-blank characters: a double quote at its *)
(* start (lq), a non-empty word without quotes (w), a double quote at its  *)
(* end (rq).  A line is its tokens, plus whether blanks precede the first  *)
(* token (lead) or follow the last (trail).                                *)
(***************************************************************************)
Tok(w) == [lq |-> FALSE, w |-> w, rq |-> FALSE]

TokStr(t) == (IF t.lq THEN "\"" ELSE "") \o t.w \o (IF t.rq THEN "\"" ELSE "")

Ln(toks) == [lead |-> FALSE, toks |-> toks, trail |-> FALSE]

\* Words that begin with the comment character.
HashWords == {"#", "#comment"}

RECURSIVE Join(_, _)
Join(strs, sep) ==
    IF Len(strs) = 0 THEN ""
    ELSE IF Len(strs) = 1 THEN strs[1]
    ELSE strs[1] \o sep \o Join(Tail(strs), sep)

Front(s) == SubSeq(s, 1, Len(s) - 1)

Last(s) == s[Len(s)]

TokStrs(toks) == [i \in 1..Len(toks) |-> TokStr(toks[i])]

\* The text of a line as it stands in config_list.
LineText(line) ==
    (IF line.lead THEN " " ELSE "") \o Join(TokStrs(line.toks), " ")
        \o (IF line.trail THEN " " ELSE "")

(***************************************************************************)
(* XML: qualified names and the lxml TreeBuilder the converters drive.     *)
(* The builder is its event log (the tree it has built so far) and its     *)
(* stack of open elements.                                                 *)
(***************************************************************************)
NETCONF_NS == "urn:ietf:params:xml:ns:netconf:base:1.0"

QName(ns, name) == [ns |-> ns, name |-> name]

operation_elem_name == QName(NETCONF_NS, "operation")

NoExc == ""

\* The state one compile threads through its helpers: the token stack, the
\* builder, and the exception in flight (NoExc when none).
CompileState(stack, b) == [stack |-> stack, builder |-> b, exc |-> NoExc]

Raise(st, e) == IF st.exc # NoExc THEN st ELSE [st EXCEPT !.exc = e]

EmptyBuilder == [events |-> <<>>, element_stack |-> <<>>]

builder_start(st, tag, attrib, nsmap) ==
    IF st.exc # NoExc THEN st
    ELSE [st EXCEPT
            !.builder.events = Append(@, [ev |-> "start", tag |-> tag,
                                          attrib |-> attrib, nsmap |-> nsmap]),
            !.builder.element_stack = Append(@, tag)]

builder_data(st, text) ==
    IF st.exc # NoExc THEN st
    ELSE [st EXCEPT !.builder.events = Append(@, [ev |-> "data", text |-> text])]

\* TreeBuilder.end pops the innermost open element (IndexError when there is
\* none) and asserts that its tag is the one being ended.
builder_end(st, tag) ==
    IF st.exc # NoExc THEN st
    ELSE IF Len(st.builder.element_stack) = 0
    THEN Raise(st, "pop from empty list")
    ELSE LET top == Last(st.builder.element_stack)
             popped == [st EXCEPT !.builder.element_stack = Front(@)]
         IN IF top # tag
            THEN Raise(popped, "end tag mismatch")
            ELSE [popped EXCEPT
                    !.builder.events = Append(@, [ev |-> "end", tag |-> tag])]

\* TreeBuilder.close asserts that no element is left open.
builder_close(st) ==
    IF st.exc # NoExc THEN st
    ELSE IF Len(st.builder.element_stack) # 0
    THEN Raise(st, "missing end tags")
    ELSE st

\* A builder whose elements take the delete operation only.
elem_set_operation_DeleteOnly(st, operation) ==
    IF st.exc # NoExc \/ operation # "delete" THEN st
    ELSE LET n == Len(st.builder.events)
         IN [st EXCEPT !.builder.events[n].attrib =
                            @ \cup {<<operation_elem_name, operation>>}]

\* elem.set(operation_elem_name, operation) on the element just started.
elem_set_operation(st, operation) ==
    IF st.exc # NoExc \/ operation \notin {"delete", "create"} THEN st
    ELSE LET n == Len(st.builder.events)
         IN [st EXCEPT !.builder.events[n].attrib =
                            @ \cup {<<operation_elem_name, operation>>}]

RECURSIVE Spaces(_)
Spaces(n) == IF n = 0 THEN "" ELSE "    " \o Spaces(n - 1)

add_indent(st) == builder_data(st, Spaces(Len(st.stack)))

(***************************************************************************)
(* Schemas.  Two small schemas in the shape of the 128T model:             *)
(*                                                                         *)
(*   module t128 (prefix t128): container config                           *)
(*        { leaf name; choice mode { case m1 { leaf fast; } } }            *)
(*   module authy: augment /t128:config                                    *)
(*        { container authority { leaf name;                               *)
(*                                list router { key name; leaf name; } } } *)
(*   module rt: augment /t128:config                                       *)
(*        { leaf type { type identityref { base routing-type; } } }        *)
(*        identity routing-type; identity bgp { base routing-type; }       *)
(*   module ospf: augment /t128:config { leaf area; }                      *)
(*        identity ospf { base rt:routing-type; }                          *)
(*                                                                         *)
(* The second schema adds, in module rt,                                   *)
(*        augment /t128:config/authy:authority { leaf authority; }         *)
(* a leaf that has the name of the container it is added to.               *)
(***************************************************************************)
NS_T128 == "http://128technology.com/t128"
NS_AUTHY == "http://128technology.com/t128/config/authority-config"
NS_RT == "http://128technology.com/t128/config/routing-config"
NS_OSPF == "http://128technology.com/t128/config/ospf-config"

\* What the schema declares, as paths: read by the properties only.
SchemaFacts(extra_leaves) ==
    [containers |-> {"config", "config/authority", "config/authority/router"},
     leaves |-> {"config/name", "config/fast", "config/type", "config/area",
                 "config/authority/name", "config/authority/router/name"}
                \cup extra_leaves,
     \* identityref leaves: the identities derived from the leaf's base, each
     \* with the prefix of the module that declares it
     identities |-> [p \in {"config/type"} |->
                        [v \in {"bgp", "ospf"} |->
                            IF v = "bgp" THEN "rt" ELSE "ospf"]]]

\* The tables ConfigModel.parse builds from the first schema: the root's
\* namespace, one namespace entry per container directly under an augment and
\* per leaf below an augment, one container entry per container or list with
\* its keys, one identity entry per identityref leaf.
ConfigModel1 ==
    [namespace_map |->
        [p \in {"config", "config/type", "config/area", "config/authority",
                "config/authority/name", "config/authority/router/name"} |->
            CASE p = "config" -> <<"t128", NS_T128>>
              [] p = "config/type" -> <<"rt", NS_RT>>
              [] p = "config/area" -> <<"ospf", NS_OSPF>>
              [] OTHER -> <<"authy", NS_AUTHY>>],
     container_map |->
        [p \in {"config", "config/authority", "config/authority/router"} |->
            IF p = "config/authority/router" THEN <<"name">> ELSE <<>>],
     identity_map |->
        [p \in {"config/type"} |->
            [v \in {"bgp", "ospf"} |-> IF v = "bgp" THEN "rt" ELSE "ospf"]],
     facts |-> SchemaFacts({})]

ConfigModel2 ==
    [namespace_map |->
        [p \in DOMAIN ConfigModel1.namespace_map
                 \cup {"config/authority/authority"} |->
            IF p = "config/authority/authority" THEN <<"rt", NS_RT>>
            ELSE ConfigModel1.namespace_map[p]],
     container_map |-> ConfigModel1.container_map,
     identity_map |-> ConfigModel1.identity_map,
     facts |-> SchemaFacts({"config/authority/authority"})]

ConfigModels == {ConfigModel1, ConfigModel2}

(***************************************************************************)
(* netconfutils/netconfconverter.py                                        *)
(***************************************************************************)
convert_stack_to_xpath(stack) == Join(stack, "/")

XPathOf(stack, token) == convert_stack_to_xpath(Append(stack, token))

is_path_container(m, stack, token) ==
    XPathOf(stack, token) \in DOMAIN m.container_map

is_path_identity_type(m, stack, token) ==
    XPathOf(stack, token) \in DOMAIN m.identity_map

is_path_augmented_type(m, stack, token) ==
    XPathOf(stack, token) \in DOMAIN m.namespace_map

get_nsmap(m, stack, token) ==
    IF XPathOf(stack, token) \in DOMAIN m.namespace_map
    THEN {m.namespace_map[XPathOf(stack, token)]}
    ELSE {}

\* The while loop of _get_element_name: pop until the path is recorded or
\* the copy of the stack is empty.
RECURSIVE PopToNamespace(_, _)
PopToNamespace(m, stack_copy) ==
    IF convert_stack_to_xpath(stack_copy) \notin DOMAIN m.namespace_map
       /\ Len(stack_copy) > 0
    THEN PopToNamespace(m, Front(stack_copy))
    ELSE stack_copy

get_element_name(m, stack, token) ==
    LET stack_copy == IF is_path_augmented_type(m, stack, token)
                      THEN Append(stack, token) ELSE stack
        xpath == convert_stack_to_xpath(PopToNamespace(m, stack_copy))
    IN IF xpath \in DOMAIN m.namespace_map
       THEN QName(m.namespace_map[xpath][2], token)
       ELSE QName("", token)

\* tokens[1] of a leaf line whose path is identity-typed: a missing value or
\* an unregistered one raises (IndexError, KeyError).
check_prefix(m, st, tokens) ==
    LET key == m.identity_map[XPathOf(st.stack, TokStr(tokens[1]))]
    IN IF Len(tokens) < 2 THEN [prefix |-> "", exc |-> "list index out of range"]
       ELSE IF TokStr(tokens[2]) \notin DOMAIN key
       THEN [prefix |-> "", exc |-> "KeyError"]
       ELSE [prefix |-> key[TokStr(tokens[2])], exc |-> NoExc]

\* One key of a list written as a child leaf (the body of the for loop of
\* _add_key_elements); an identity-typed key is prefixed like a leaf value.
RECURSIVE add_key_elements_from(_, _, _, _, _)
add_key_elements_from(m, st, tokens, keys, i) ==
    IF i > Len(keys) \/ st.exc # NoExc THEN st
    ELSE LET key == keys[i]
             cp == IF is_path_identity_type(m, st.stack, key)
                   THEN check_prefix(m, st, <<Tok(key), tokens[i + 1]>>)
                   ELSE [prefix |-> "", exc |-> NoExc]
             value == IF is_path_identity_type(m, st.stack, key)
                      THEN cp.prefix \o ":" \o TokStr(tokens[i + 1])
                      ELSE TokStr(tokens[i + 1])
             element_name == get_element_name(m, st.stack, key)
             st0 == IF cp.exc # NoExc THEN Raise(st, cp.exc) ELSE st
             st1 == add_indent(st0)
             st2 == builder_start(st1, element_name, {}, {})
             st3 == builder_data(st2, value)
             st4 == builder_end(st3, element_name)
             st5 == builder_data(st4, "\n")
         IN add_key_elements_from(m, st5, tokens, keys, i + 1)

add_key_elements(m, st, tokens) ==
    LET xpath == convert_stack_to_xpath(st.stack)
    IN IF st.exc # NoExc \/ xpath \notin DOMAIN m.container_map THEN st
       ELSE IF Len(m.container_map[xpath]) # Len(tokens) - 1
       THEN Raise(st, "Invalid keys specified")
       ELSE add_key_elements_from(m, st, tokens, m.container_map[xpath], 1)

\* An exit that closes the element and leaves its name on the stack.
process_exit_token_NoPop(m, st) ==
    IF Len(st.stack) = 0 THEN Raise(st, "list index out of range")
    ELSE LET token == Last(st.stack)
             element_name == get_element_name(m, st.stack, token)
             st3 == builder_end(add_indent(st), element_name)
         IN builder_data(st3, "\n")

\* An exit that ends the element under its bare name, in no namespace.
process_exit_token_Unqualified(m, st) ==
    IF Len(st.stack) = 0 THEN Raise(st, "list index out of range")
    ELSE LET token == Last(st.stack)
             st1 == [st EXCEPT !.stack = Front(@)]
             st2 == add_indent(st1)
             st3 == builder_end(st2, QName("", token))
         IN builder_data(st3, "\n")

process_exit_token(m, st) ==
    IF Len(st.stack) = 0 THEN Raise(st, "list index out of range")
    ELSE LET token == Last(st.stack)
             element_name == get_element_name(m, st.stack, token)
             st1 == [st EXCEPT !.stack = Front(@)]
             st2 == add_indent(st1)
             st3 == builder_end(st2, element_name)
         IN builder_data(st3, "\n")

\* tokens[1:] joined by single blanks, tokens[1] carrying `prefix:` when the
\* leaf is identity-typed.
LeafText(tokens, prefixed, prefix) ==
    Join([i \in 1..(Len(tokens) - 1) |->
            IF i = 1 /\ prefixed THEN prefix \o ":" \o TokStr(tokens[2])
            ELSE TokStr(tokens[i + 1])], " ")

process_config_tokens(m, keys_as_parameters, st, tokens, operation) ==
    IF Len(tokens) = 0 THEN Raise(st, "list index out of range")
    ELSE
    LET first_token == TokStr(tokens[1])
        prefix_nsmap == get_nsmap(m, st.stack, first_token)
    IN IF is_path_container(m, st.stack, first_token)
       THEN LET st1 == add_indent(st)
                st2 == [st1 EXCEPT !.stack = Append(@, first_token)]
                element_name == get_element_name(m, st2.stack, first_token)
                st3 == builder_start(st2, element_name, {}, prefix_nsmap)
                st4 == elem_set_operation(st3, operation)
                st5 == builder_data(st4, "\n")
            IN IF keys_as_parameters
               THEN add_key_elements(m, st5, tokens)
               ELSE st5
       ELSE LET st1 == add_indent(st)
                element_name == get_element_name(m, st1.stack, first_token)
                st2 == builder_start(st1, element_name, {}, prefix_nsmap)
                st3 == elem_set_operation(st2, operation)
                identity == is_path_identity_type(m, st.stack, first_token)
                cp == IF identity THEN check_prefix(m, st, tokens)
                      ELSE [prefix |-> "", exc |-> NoExc]
                st4 == IF cp.exc # NoExc THEN Raise(st3, cp.exc) ELSE st3
                st5 == builder_data(st4, LeafText(tokens, identity, cp.prefix))
                st6 == builder_end(st5, element_name)
            IN builder_data(st6, "\n")

\* config_line.split(), then the quotes of a quoted value are removed: the
\* opening one from tokens[start_token], the closing one from
\* tokens[end_token].
StripQuotes(tokens) ==
    LET start_token == IF Len(tokens) > 1 THEN 2 ELSE 1
        end_token == IF Len(tokens) > 1 THEN Len(tokens) ELSE 1
    IN IF tokens[start_token].lq /\ tokens[end_token].rq
       THEN [i \in 1..Len(tokens) |->
                [lq |-> tokens[i].lq /\ i # start_token,
                 w |-> tokens[i].w,
                 rq |-> tokens[i].rq /\ i # end_token]]
       ELSE tokens

process_config_line(m, keys_as_parameters, st, line) ==
    IF Len(line.toks) = 0 THEN Raise(st, "list index out of range")
    ELSE
    LET tokens == StripQuotes(line.toks)
    IN IF TokStr(tokens[1]) = "exit"
       THEN process_exit_token(m, st)
       ELSE IF TokStr(tokens[1]) \in {"delete", "create"}
       THEN process_config_tokens(m, keys_as_parameters, st, Tail(tokens),
                                  TokStr(tokens[1]))
       ELSE process_config_tokens(m, keys_as_parameters, st, tokens, "None")

\* A test that skips the empty line only.
is_line_empty_or_comment_EmptyOnly(line) ==
    ~line.lead /\ Len(line.toks) = 0 /\ ~line.trail

\* len(config_line) is 0, or config_line[0] == '#'
is_line_empty_or_comment(line) ==
    \/ ~line.lead /\ Len(line.toks) = 0 /\ ~line.trail
    \/ ~line.lead /\ Len(line.toks) > 0
         /\ ~line.toks[1].lq /\ line.toks[1].w \in HashWords

(***************************************************************************)
(* ote_utils/netconfutils/netconfconverter.py                              *)
(*                                                                         *)
(* The consolidated model is a tree of schema nodes; each node carries its *)
(* YANG keyword, its name, and the namespace and prefix of the module that *)
(* declares it.  `base` is the base of an identity, or of the identityref  *)
(* type of a leaf ("" otherwise).  None is the node that is not there.     *)
(***************************************************************************)
None == "None"

Node(keyword, name, prefix, namespace, base, children) ==
    [keyword |-> keyword, name |-> name, prefix |-> prefix,
     namespace |-> namespace, base |-> base, children |-> children]

ConsolidatedNodes(authority_children) ==
    [id \in {"/", "id:routing-type", "id:bgp", "id:ospf", "config",
             "config/name", "config/mode", "config/mode/m1", "config/fast",
             "config/type", "config/area", "config/authority",
             "config/authority/name", "config/authority/router",
             "config/authority/router/name", "config/authority/authority"} |->
        CASE id = "/" ->
                Node("module", "t128", "t128", NS_T128, "",
                     <<"config", "id:routing-type", "id:bgp", "id:ospf">>)
          [] id = "id:routing-type" ->
                Node("identity", "routing-type", "rt", NS_RT, "", <<>>)
          [] id = "id:bgp" ->
                Node("identity", "bgp", "rt", NS_RT, "routing-type", <<>>)
          [] id = "id:ospf" ->
                Node("identity", "ospf", "ospf", NS_OSPF, "routing-type", <<>>)
          [] id = "config" ->
                Node("container", "config", "t128", NS_T128, "",
                     <<"config/name", "config/mode", "config/type",
                       "config/area", "config/authority">>)
          [] id = "config/name" ->
                Node("leaf", "name", "t128", NS_T128, "", <<>>)
          [] id = "config/mode" ->
                Node("choice", "mode", "t128", NS_T128, "", <<"config/mode/m1">>)
          [] id = "config/mode/m1" ->
                Node("case", "m1", "t128", NS_T128, "", <<"config/fast">>)
          [] id = "config/fast" ->
                Node("leaf", "fast", "t128", NS_T128, "", <<>>)
          [] id = "config/type" ->
                Node("leaf", "type", "rt", NS_RT, "routing-type", <<>>)
          [] id = "config/area" ->
                Node("leaf", "area", "ospf", NS_OSPF, "", <<>>)
          [] id = "config/authority" ->
                Node("container", "authority", "authy", NS_AUTHY, "",
                     authority_children)
          [] id = "config/authority/name" ->
                Node("leaf", "name", "authy", NS_AUTHY, "", <<>>)
          [] id = "config/authority/router" ->
                Node("list", "router", "authy", NS_AUTHY, "",
                     <<"config/authority/router/name">>)
          [] id = "config/authority/router/name" ->
                Node("leaf", "name", "authy", NS_AUTHY, "", <<>>)
          [] id = "config/authority/authority" ->
                Node("leaf", "authority", "rt", NS_RT, "", <<>>)]

ConsolidatedModel1 ==
    [nodes |-> ConsolidatedNodes(<<"config/authority/name",
                                   "config/authority/router">>),
     root |-> "/",
     facts |-> SchemaFacts({})]

ConsolidatedModel2 ==
    [nodes |-> ConsolidatedNodes(<<"config/authority/name",
                                   "config/authority/router",
                                   "config/authority/authority">>),
     root |-> "/",
     facts |-> SchemaFacts({"config/authority/authority"})]

ConsolidatedModels == {ConsolidatedModel1, ConsolidatedModel2}

\* tree.find("*/[@name='...']"): the first child that has the name.
FindNamed(m, children, name) ==
    LET hits == {i \in 1..Len(children) : m.nodes[children[i]].name = name}
    IN IF hits = {} THEN None
       ELSE children[CHOOSE i \in hits : \A j \in hits : i <= j]

\* find_child: a child of that name, else the first one found, in document
\* order, below the choice and case children.
RECURSIVE find_child(_, _, _)
RECURSIVE FindBelowWrappers(_, _, _, _)
FindBelowWrappers(m, children, name, i) ==
    IF i > Len(children) THEN None
    ELSE LET child == m.nodes[children[i]]
             node == IF child.keyword \in {"choice", "case"}
                     THEN find_child(m, children[i], name) ELSE None
         IN IF node # None THEN node
            ELSE FindBelowWrappers(m, children, name, i + 1)

find_child(m, tree, name) ==
    LET node == FindNamed(m, m.nodes[tree].children, name)
    IN IF node # None THEN node
       ELSE FindBelowWrappers(m, m.nodes[tree].children, name, 1)

\* The for loop of _find_model_node; find_child of None raises.
RECURSIVE WalkPath(_, _, _)
WalkPath(m, tree, names) ==
    IF Len(names) = 0 THEN [tree |-> tree, exc |-> NoExc]
    ELSE IF tree = None
    THEN [tree |-> None, exc |-> "'NoneType' object has no attribute 'find'"]
    ELSE WalkPath(m, find_child(m, tree, names[1]), Tail(names))

\* token is a sequence: <<>> for None, <<name>> otherwise.
find_model_node(m, stack, token) ==
    LET stack_copy == stack \o token
        found == WalkPath(m, m.root, stack_copy)
    IN IF found.exc # NoExc
       THEN [exc |-> found.exc, namespace |-> "", prefix |-> "", keyword |-> ""]
       ELSE IF found.tree = None
       THEN [exc |-> "Token does not exist in the data model",
             namespace |-> "", prefix |-> "", keyword |-> ""]
       ELSE [exc |-> NoExc,
             namespace |-> m.nodes[found.tree].namespace,
             prefix |-> m.nodes[found.tree].prefix,
             keyword |-> m.nodes[found.tree].keyword]

\* _find_identities: every top-level identity is written into IDENTITY_MAP,
\* over what the map already holds.
find_identities(m, identity_map) ==
    LET kids == m.nodes[m.root].children
        ids == {i \in 1..Len(kids) : m.nodes[kids[i]].keyword = "identity"}
        names == {m.nodes[kids[i]].name : i \in ids}
        \* a later identity of the same name overwrites an earlier one
        last(n) == CHOOSE i \in ids :
                      /\ m.nodes[kids[i]].name = n
                      /\ \A k \in ids : m.nodes[kids[k]].name = n => k <= i
    IN [n \in DOMAIN identity_map \cup names |->
            IF n \in names
            THEN [prefix |-> m.nodes[kids[last(n)]].prefix,
                  namespace |-> m.nodes[kids[last(n)]].namespace]
            ELSE identity_map[n]]

is_identity_type(identity_map, token, namespace) ==
    /\ token \in DOMAIN identity_map
    /\ identity_map[token].namespace = namespace

ote_process_config_tokens(m, identity_map, st, tokens, operation) ==
    IF Len(tokens) = 0 THEN Raise(st, "list index out of range")
    ELSE
    LET first_token == TokStr(tokens[1])
        node == find_model_node(m, st.stack, <<first_token>>)
        element_name == QName(node.namespace, first_token)
        st0 == IF node.exc # NoExc THEN Raise(st, node.exc) ELSE st
        st1 == add_indent(st0)
        st2 == builder_start(st1, element_name, {},
                             {<<node.prefix, node.namespace>>})
        st3 == elem_set_operation(st2, operation)
    IN IF node.keyword \in {"leaf", "leaf-list", "case"}
       THEN LET identity == /\ Len(tokens) > 1
                            /\ is_identity_type(identity_map,
                                                TokStr(tokens[2]),
                                                node.namespace)
                st4 == IF Len(tokens) > 1
                       THEN builder_data(st3, LeafText(tokens, identity,
                                                       node.prefix))
                       ELSE st3
                st5 == builder_end(st4, element_name)
            IN builder_data(st5, "\n")
       ELSE LET st4 == IF st3.exc # NoExc THEN st3
                       ELSE [st3 EXCEPT !.stack = Append(@, first_token)]
            IN builder_data(st4, "\n")

ote_process_exit_token(m, st) ==
    IF Len(st.stack) = 0 THEN Raise(st, "list index out of range")
    ELSE LET token == Last(st.stack)
             node == find_model_node(m, st.stack, <<>>)
             element_name == QName(node.namespace, token)
             st0 == IF node.exc # NoExc THEN Raise(st, node.exc) ELSE st
             st1 == IF st0.exc # NoExc THEN st0
                    ELSE [st0 EXCEPT !.stack = Front(@)]
             st2 == add_indent(st1)
             st3 == builder_end(st2, element_name)
         IN builder_data(st3, "\n")

ote_process_config_line(m, identity_map, st, line) ==
    IF Len(line.toks) = 0 THEN Raise(st, "list index out of range")
    ELSE
    LET tokens == StripQuotes(line.toks)
    IN IF TokStr(tokens[1]) = "exit"
       THEN ote_process_exit_token(m, st)
       ELSE IF TokStr(tokens[1]) \in {"delete", "create"}
       THEN ote_process_config_tokens(m, identity_map, st, Tail(tokens),
                                      TokStr(tokens[1]))
       ELSE ote_process_config_tokens(m, identity_map, st, tokens, "None")

VARIABLES
    impl,                      \* which converter this behaviour runs
    model,                     \* self.model of the converter
    IDENTITY_MAP,              \* ote_utils: NetconfConverter.IDENTITY_MAP
    write_object_keys_as_parameters,
    tag,                       \* the root tag the caller gives
    attributes,                \* the caller's extra root attributes
    config_list,               \* the lines given to the compile
    line_number,               \* the for loop's line_number
    config_line,               \* the for loop's config_line
    current_xml_token_stack,
    builder,
    outcome,                   \* what the compile has returned or raised
    run,                       \* 0 before the first compile, then 1, 2
    previous,                  \* the outcome of the first compile
    threads,                   \* the locals of two compiles run concurrently
    given_list,                \* a config as an ordered sequence of lines
    list_result,               \* the result of compiling it as a sequence
    text_result,               \* the result of compiling it as one text
    self_model,                \* netconfutils: the converter's self.model
    pending,                   \* the files parse has still to read
    load_status,               \* idle, parsing, loaded or raised
    loads,                     \* the number of load_config_model calls
    model_before,              \* self.model when the last call was made
    file_pattern               \* the files the last call was given

\* The converter object (and its class): all that two compiles share.
converter == <<impl, model, IDENTITY_MAP, write_object_keys_as_parameters>>

\* The arguments and the locals of the compile that runs alone.
locals == <<tag, attributes, config_list, line_number, config_line,
            current_xml_token_stack, builder, outcome, run, previous>>

\* One config given in both input forms.
forms == <<given_list, list_result, text_result>>

\* A build of the schema model.
build == <<self_model, pending, load_status, loads, model_before,
           file_pattern>>

vars == <<converter, locals, threads, forms, build>>

(***************************************************************************)
(* What a compile is given.                                                *)
(***************************************************************************)
Lines ==
    {Ln(<<Tok("config")>>),
     Ln(<<Tok("authority")>>),
     Ln(<<Tok("exit")>>),
     Ln(<<Tok("name"), Tok("x")>>),
     Ln(<<Tok("type"), Tok("bgp")>>),
     Ln(<<Tok("type"), Tok("ospf")>>),
     Ln(<<Tok("type"), Tok("zzz")>>),
     Ln(<<Tok("type")>>),
     Ln(<<Tok("delete"), Tok("config")>>),
     Ln(<<Tok("create"), Tok("name"), Tok("x")>>),
     Ln(<<Tok("WRONG_ELEMENT")>>),
     Ln(<<Tok("#comment")>>),
     Ln(<<>>)}

\* The root tag and the extra root attributes a caller passes.
RootArguments ==
    {[tag |-> "config", attributes |-> {}],
     [tag |-> "filter", attributes |-> {<<QName("", "type"), "subtree">>}]}

StartLine == Ln(<<Tok("(start)")>>)

NoError == [line_number |-> <<>>, line_text |-> <<>>, cause |-> ""]

Idle == [status |-> "idle", root |-> <<>>, error |-> NoError]

Running == [status |-> "running", root |-> <<>>, error |-> NoError]

Returned(root) == [status |-> "returned", root |-> root, error |-> NoError]

\* raise ConfigParseError('Error parsing config, line ' + str(line_number)
\*                        + ': "' + config_line + '" : ' + str(e))
ConfigParseError(number, line, e) ==
    [status |-> "raised", root |-> <<>>,
     error |-> [line_number |-> <<number>>, line_text |-> <<LineText(line)>>,
                cause |-> e]]

\* raise ConfigParseError("Error parsing config " + str(e))
ote_ConfigParseError(number, line, e) ==
    [status |-> "raised", root |-> <<>>,
     error |-> [line_number |-> <<>>, line_text |-> <<>>, cause |-> e]]

\* A converter after __init__ and load_config_model.
InitConverter ==
    /\ impl \in {"netconfutils", "ote_utils"}
    /\ model \in (IF impl = "netconfutils" THEN ConfigModels
                  ELSE ConsolidatedModels)
    /\ IDENTITY_MAP = IF impl = "netconfutils" THEN <<>>
                      ELSE find_identities(model, <<>>)
    /\ write_object_keys_as_parameters = FALSE

InitLocals ==
    /\ tag = "config"
    /\ attributes = {}
    /\ config_list = <<>>
    /\ line_number = 0
    /\ config_line = StartLine
    /\ current_xml_token_stack = <<>>
    /\ builder = EmptyBuilder
    /\ outcome = Idle
    /\ run = 0
    /\ previous = Idle

\* load_config_model has not been called.
InitBuild ==
    /\ self_model = <<>>
    /\ pending = <<>>
    /\ load_status = "idle"
    /\ loads = 0
    /\ model_before = <<>>
    /\ file_pattern = {}

\* No config has been given in two forms.
InitForms ==
    /\ given_list = <<>>
    /\ list_result = Idle
    /\ text_result = Idle

Init ==
    /\ InitConverter
    /\ InitLocals
    /\ threads = <<>>
    /\ InitForms
    /\ InitBuild

Finished == outcome.status \in {"returned", "raised"}

\* A compile starts: the first one with arguments of the caller's choice,
\* the second one with the arguments and the config of the first.
CanBegin == run = 0 \/ (run = 1 /\ Finished)

\* The line the for loop takes next: any line while the first compile's
\* config is still being drawn, the recorded one in the second compile.
NextLine(line) ==
    \/ /\ run = 1
       /\ Len(config_list) < MaxLines
       /\ line \in Lines
       /\ config_list' = Append(config_list, line)
    \/ /\ run = 2
       /\ line_number < Len(config_list)
       /\ line = config_list[line_number + 1]
       /\ UNCHANGED config_list

InputExhausted == run = 1 \/ line_number = Len(config_list)

\* A compile that starts on the stack the previous compile left behind.
StartRoot_Stale(root_tag, root_attributes) ==
    builder_data(
        builder_start(CompileState(current_xml_token_stack, EmptyBuilder),
                      QName(NETCONF_NS, root_tag), root_attributes, {}),
        "\n")

\* A root that is started without the caller's attributes.
StartRoot_BareRoot(root_tag, root_attributes) ==
    builder_data(
        builder_start(CompileState(<<>>, EmptyBuilder),
                      QName(NETCONF_NS, root_tag), {}, {}),
        "\n")

\* builder.start(config_elem_name, attributes); builder.data('\n')
StartRoot(root_tag, root_attributes) ==
    builder_data(
        builder_start(CompileState(<<>>, EmptyBuilder),
                      QName(NETCONF_NS, root_tag), root_attributes, {}),
        "\n")

\* A root that closes on end of input whatever is still open.
EndRoot_AutoClose(st, root_tag) ==
    IF st.exc # NoExc THEN st
    ELSE [st EXCEPT !.builder.events =
                        @ \o <<[ev |-> "end", tag |-> QName(NETCONF_NS, root_tag)],
                               [ev |-> "data", text |-> "\n"]>>]

\* builder.end(config_elem_name); builder.data('\n'); root = builder.close()
EndRoot(st, root_tag) ==
    builder_close(builder_data(builder_end(st, QName(NETCONF_NS, root_tag)),
                               "\n"))

Begin(arguments, root_attributes) ==
    /\ CanBegin
    /\ arguments \in RootArguments
    /\ run = 1 => arguments.tag = tag
    /\ tag' = arguments.tag
    /\ attributes' = root_attributes
    /\ LET st == StartRoot(arguments.tag, root_attributes)
       IN /\ builder' = st.builder
          /\ current_xml_token_stack' = st.stack
    /\ config_line' = StartLine
    /\ line_number' = 0
    /\ outcome' = Running
    /\ previous' = outcome
    /\ run' = run + 1
    /\ UNCHANGED <<converter, config_list, threads, forms, build>>

\* netconfutils: _convert_config_list_to_netconf_xml up to the for loop.
convert_config_list_to_netconf_xml ==
    /\ impl = "netconfutils"
    /\ \E arguments \in RootArguments : Begin(arguments, {})

\* ote_utils: the same, with the caller's attributes on the root.
ote_convert_config_list_to_netconf_xml ==
    /\ impl = "ote_utils"
    /\ \E arguments \in RootArguments : Begin(arguments, arguments.attributes)

LineStep(line, st, raised) ==
    /\ line_number' = line_number + 1
    /\ config_line' = line
    /\ current_xml_token_stack' = st.stack
    /\ builder' = st.builder
    /\ outcome' = IF st.exc # NoExc THEN raised ELSE outcome
    /\ UNCHANGED <<converter, tag, attributes, run, previous, threads, forms,
                   build>>

\* netconfutils: one iteration of the for loop, and the except clause when
\* the iteration raises.
for_config_line(line) ==
    /\ impl = "netconfutils"
    /\ outcome.status = "running"
    /\ NextLine(line)
    /\ LET st == CompileState(current_xml_token_stack, builder)
           st1 == IF is_line_empty_or_comment(line) THEN st
                  ELSE process_config_line(model,
                                           write_object_keys_as_parameters,
                                           st, line)
       IN LineStep(line, st1,
                   ConfigParseError(line_number + 1, line, st1.exc))

ote_for_config_line(line) ==
    /\ impl = "ote_utils"
    /\ outcome.status = "running"
    /\ NextLine(line)
    /\ LET st == CompileState(current_xml_token_stack, builder)
           st1 == IF is_line_empty_or_comment(line) THEN st
                  ELSE ote_process_config_line(model, IDENTITY_MAP, st, line)
       IN LineStep(line, st1,
                   ote_ConfigParseError(line_number + 1, line, st1.exc))

EndStep(st, raised) ==
    /\ current_xml_token_stack' = st.stack
    /\ builder' = st.builder
    /\ outcome' = IF st.exc # NoExc THEN raised
                  ELSE Returned(st.builder.events)
    /\ UNCHANGED <<converter, tag, attributes, config_list, line_number,
                   config_line, run, previous, threads, forms, build>>

\* netconfutils: the input is exhausted; the root is ended and the tree
\* returned, or the except clause reports the last line read.
end_of_config_list ==
    /\ impl = "netconfutils"
    /\ outcome.status = "running"
    /\ InputExhausted
    /\ LET st == EndRoot(CompileState(current_xml_token_stack, builder), tag)
       IN EndStep(st, ConfigParseError(line_number, config_line, st.exc))

ote_end_of_config_list ==
    /\ impl = "ote_utils"
    /\ outcome.status = "running"
    /\ InputExhausted
    /\ LET st == EndRoot(CompileState(current_xml_token_stack, builder), tag)
       IN EndStep(st, ote_ConfigParseError(line_number, config_line, st.exc))

Next ==
    \/ convert_config_list_to_netconf_xml
    \/ \E line \in Lines : for_config_line(line)
    \/ end_of_config_list
    \/ ote_convert_config_list_to_netconf_xml
    \/ \E line \in Lines : ote_for_config_line(line)
    \/ ote_end_of_config_list

Spec == Init /\ [][Next]_vars

(***************************************************************************)
(* Two compiles on one converter, their loop iterations interleaved.  Each *)
(* call of _convert_config_list_to_netconf_xml has its own locals; the     *)
(* converter's attributes are all the two calls share.                     *)
(***************************************************************************)
ThreadIds == {"t1", "t2"}

ConcLines ==
    {Ln(<<Tok("config")>>),
     Ln(<<Tok("authority")>>),
     Ln(<<Tok("exit")>>),
     Ln(<<Tok("WRONG_ELEMENT")>>)}

\* The locals of a call that has not been made yet.
IdleThread ==
    [tag |-> "config", attributes |-> {}, config_list |-> <<>>,
     line_number |-> 0, config_line |-> StartLine,
     current_xml_token_stack |-> <<>>, builder |-> EmptyBuilder,
     outcome |-> Idle]

\* The stack and the builder a frame with the locals t works on.
OwnState(t) == CompileState(t.current_xml_token_stack, t.builder)

\* The stack and the builder the call c works on: its own locals.
ThreadState_SharedStack(c) ==
    CompileState(threads["t1"].current_xml_token_stack, threads[c].builder)

ThreadState(c) == OwnState(threads[c])

\* The attributes the root gets: netconfutils takes none from the caller.
RootAttributes(arguments) ==
    IF impl = "netconfutils" THEN {} ELSE arguments.attributes

\* The except clause of the implementation in use.
RaisedBy(number, line, e) ==
    IF impl = "netconfutils" THEN ConfigParseError(number, line, e)
    ELSE ote_ConfigParseError(number, line, e)

\* The locals when the for loop is reached.
Started(arguments) ==
    LET st == StartRoot(arguments.tag, RootAttributes(arguments))
    IN [tag |-> arguments.tag, attributes |-> RootAttributes(arguments),
        config_list |-> <<>>, line_number |-> 0, config_line |-> StartLine,
        current_xml_token_stack |-> st.stack, builder |-> st.builder,
        outcome |-> Running]

\* The locals after an iteration of the for loop that left the state st1.
AfterLine(t, st1, line) ==
    [t EXCEPT !.config_list = Append(@, line),
              !.line_number = @ + 1,
              !.config_line = line,
              !.current_xml_token_stack = st1.stack,
              !.builder = st1.builder,
              !.outcome = IF st1.exc # NoExc
                          THEN RaisedBy(t.line_number + 1, line, st1.exc)
                          ELSE @]

\* The locals after one iteration of the for loop on the state st.
Iterated(t, st, line) ==
    AfterLine(t,
              IF is_line_empty_or_comment(line) THEN st
              ELSE IF impl = "netconfutils"
              THEN process_config_line(model, write_object_keys_as_parameters,
                                       st, line)
              ELSE ote_process_config_line(model, IDENTITY_MAP, st, line),
              line)

\* The locals after the loop: the root ended and the tree closed.
Ended(t, st) ==
    LET st1 == EndRoot(st, t.tag)
    IN [t EXCEPT !.current_xml_token_stack = st1.stack,
                 !.builder = st1.builder,
                 !.outcome = IF st1.exc # NoExc
                             THEN RaisedBy(t.line_number, t.config_line,
                                           st1.exc)
                             ELSE Returned(st1.builder.events)]

\* The locals of a compile that runs the loop over the lines on its own.
RECURSIVE RunAlone(_, _)
RunAlone(t, lines) ==
    IF lines = <<>> \/ t.outcome.status # "running" THEN t
    ELSE RunAlone(Iterated(t, OwnState(t), Head(lines)), Tail(lines))

\* The end of the call: the lines after the loop, unless the loop raised.
EndedUnlessRaised(t) ==
    IF t.outcome.status = "running" THEN Ended(t, OwnState(t)) ELSE t

\* A whole compile of the lines, run on its own.
CompileAlone(arguments, lines) ==
    EndedUnlessRaised(RunAlone(Started(arguments), lines))

ConcInit ==
    /\ InitConverter
    /\ InitLocals
    /\ threads = [c \in ThreadIds |-> IdleThread]
    /\ InitForms
    /\ InitBuild

thread_convert_config_list_to_netconf_xml(c) ==
    /\ threads[c].outcome.status = "idle"
    /\ \E arguments \in RootArguments :
           threads' = [threads EXCEPT ![c] = Started(arguments)]
    /\ UNCHANGED <<converter, locals, forms, build>>

thread_for_config_line(c, line) ==
    /\ threads[c].outcome.status = "running"
    /\ Len(threads[c].config_list) < MaxConcLines
    /\ threads' = [threads EXCEPT
                       ![c] = Iterated(threads[c], ThreadState(c), line)]
    /\ UNCHANGED <<converter, locals, forms, build>>

thread_end_of_config_list(c) ==
    /\ threads[c].outcome.status = "running"
    /\ threads' = [threads EXCEPT ![c] = Ended(threads[c], ThreadState(c))]
    /\ UNCHANGED <<converter, locals, forms, build>>

ConcNext ==
    \/ \E c \in ThreadIds : thread_convert_config_list_to_netconf_xml(c)
    \/ \E c \in ThreadIds, line \in ConcLines : thread_for_config_line(c, line)
    \/ \E c \in ThreadIds : thread_end_of_config_list(c)

SpecConc == ConcInit /\ [][ConcNext]_vars

(***************************************************************************)
(* The two input forms of convert_config_to_netconf_xml: a list is taken   *)
(* as it is, a string is cut into lines and each line stripped.            *)
(*                                                                         *)
(* A text is a sequence of items: the characters of a line (which hold no  *)
(* line break), or the character '\n'.                                     *)
(***************************************************************************)
LineBreak == [break |-> TRUE, line |-> Ln(<<>>)]

Characters(line) == [break |-> FALSE, line |-> line]

FormLines ==
    {Ln(<<Tok("config")>>),
     [lead |-> TRUE, toks |-> <<Tok("name"), Tok("x")>>, trail |-> TRUE],
     [lead |-> TRUE, toks |-> <<Tok("exit")>>, trail |-> FALSE],
     [lead |-> TRUE, toks |-> <<>>, trail |-> FALSE],
     Ln(<<Tok("#comment")>>),
     Ln(<<>>)}

\* '\n'.join(lines)
RECURSIVE JoinLines(_)
JoinLines(lines) ==
    IF Len(lines) = 0 THEN <<>>
    ELSE IF Len(lines) = 1 THEN <<Characters(lines[1])>>
    ELSE <<Characters(lines[1]), LineBreak>> \o JoinLines(Tail(lines))

\* What stands between two line breaks: a line, or no character at all.
PieceOf(items) == IF items = <<>> THEN Ln(<<>>) ELSE items[1].line

\* config_str.split('\n'): the pieces between the line breaks, one more
\* than there are line breaks.
RECURSIVE split(_, _)
split(text, piece) ==
    IF text = <<>> THEN <<PieceOf(piece)>>
    ELSE IF Head(text).break
    THEN <<PieceOf(piece)>> \o split(Tail(text), <<>>)
    ELSE split(Tail(text), Append(piece, Head(text)))

\* config_str.splitlines(): as split, without the piece after a final line
\* break and with no piece at all for the empty text.
splitlines(text) ==
    IF text = <<>> \/ Last(text).break THEN Front(split(text, <<>>))
    ELSE split(text, <<>>)

\* line.strip()
strip(line) == [line EXCEPT !.lead = FALSE, !.trail = FALSE]

\* netconfutils: [line.strip() for line in config_str.split('\n')]
convert_config_string_to_list(config_str) ==
    LET lines == split(config_str, <<>>)
    IN [i \in 1..Len(lines) |-> strip(lines[i])]

\* ote_utils: [line.strip() for line in config_str.splitlines()]
ote_convert_config_string_to_list(config_str) ==
    LET lines == splitlines(config_str)
    IN [i \in 1..Len(lines) |-> strip(lines[i])]

ConfigTag == [tag |-> "config", attributes |-> {}]

\* convert_config_to_netconf_xml: the branch on isinstance(..., basestring).
convert_config_to_netconf_xml(config_string_or_list, is_string) ==
    LET config_lines ==
            IF ~is_string THEN config_string_or_list
            ELSE IF impl = "netconfutils"
            THEN convert_config_string_to_list(config_string_or_list)
            ELSE ote_convert_config_string_to_list(config_string_or_list)
    IN CompileAlone(ConfigTag, config_lines).outcome

FormsInit ==
    /\ InitConverter
    /\ InitLocals
    /\ threads = <<>>
    /\ InitForms
    /\ InitBuild

\* The caller's config grows by one line.
give_line(line) ==
    /\ list_result = Idle
    /\ text_result = Idle
    /\ Len(given_list) < MaxFormLines
    /\ given_list' = Append(given_list, line)
    /\ UNCHANGED <<converter, locals, threads, build, list_result,
                   text_result>>

\* convert_config_to_netconf_xml(given_list, 'config')
convert_given_list ==
    /\ list_result = Idle
    /\ list_result' = convert_config_to_netconf_xml(given_list, FALSE)
    /\ UNCHANGED <<converter, locals, threads, build, given_list,
                   text_result>>

\* convert_config_to_netconf_xml('\n'.join(given_list), 'config')
convert_given_text ==
    /\ text_result = Idle
    /\ text_result' = convert_config_to_netconf_xml(JoinLines(given_list), TRUE)
    /\ UNCHANGED <<converter, locals, threads, build, given_list,
                   list_result>>

FormsNext ==
    \/ \E line \in FormLines : give_line(line)
    \/ convert_given_list
    \/ convert_given_text

SpecForms == FormsInit /\ [][FormsNext]_vars

(***************************************************************************)
(* A compile of lines with values: quoted and unquoted values, with and    *)
(* without a leading delete or create.                                     *)
(***************************************************************************)
Quoted(w) == [lq |-> TRUE, w |-> w, rq |-> TRUE]
OpenQuote(w) == [lq |-> TRUE, w |-> w, rq |-> FALSE]
CloseQuote(w) == [lq |-> FALSE, w |-> w, rq |-> TRUE]

ValueLines ==
    {Ln(<<Tok("config")>>),
     Ln(<<Tok("exit")>>),
     Ln(<<Tok("name"), Tok("x")>>),
     Ln(<<Tok("name"), Tok("a"), Tok("b")>>),
     Ln(<<Tok("name"), Quoted("x")>>),
     Ln(<<Tok("name"), OpenQuote("a"), CloseQuote("b")>>),
     Ln(<<Tok("delete"), Tok("name"), Tok("x")>>),
     Ln(<<Tok("delete"), Tok("name"), OpenQuote("a"), CloseQuote("b")>>),
     Ln(<<Tok("create"), Tok("name"), Quoted("x")>>),
     Ln(<<Tok("create"), Tok("config")>>),
     Ln(<<Tok("type"), Tok("bgp")>>),
     Ln(<<Tok("area"), Tok("ospf")>>)}

\* The body of the for loop of the implementation in use, on the state st.
ProcessedLine(st, line) ==
    IF is_line_empty_or_comment(line) THEN st
    ELSE IF impl = "netconfutils"
    THEN process_config_line(model, write_object_keys_as_parameters, st, line)
    ELSE ote_process_config_line(model, IDENTITY_MAP, st, line)

\* _convert_config_list_to_netconf_xml up to the for loop.
convert_value_lines ==
    /\ run = 0
    /\ \E arguments \in RootArguments :
           Begin(arguments, RootAttributes(arguments))

ReadLine(line, st1) ==
    LineStep(line, st1, RaisedBy(line_number + 1, line, st1.exc))

\* One iteration of the for loop, and the except clause when it raises.
for_value_line(line) ==
    /\ outcome.status = "running"
    /\ run = 1
    /\ Len(config_list) < MaxValueLines
    /\ config_list' = Append(config_list, line)
    /\ ReadLine(line,
                ProcessedLine(CompileState(current_xml_token_stack, builder),
                              line))

ValuesNext ==
    \/ convert_value_lines
    \/ \E line \in ValueLines : for_value_line(line)
    \/ end_of_config_list
    \/ ote_end_of_config_list

SpecValues == Init /\ [][ValuesNext]_vars

(***************************************************************************)
(* ote_utils: the models a process loads before a compile.  IDENTITY_MAP   *)
(* is an attribute of the class NetconfConverter: every converter of the   *)
(* process reads and writes the one dictionary.                            *)
(***************************************************************************)
\* A consolidated user model: the tree of the first schema, which declares
\* no identity.
ConsolidatedUserModel ==
    [ConsolidatedModel1 EXCEPT !.nodes["/"].children = <<"config">>,
                               !.facts.identities = <<>>]

\* A new process in which this converter has loaded its first model.
LoadsInit ==
    /\ impl = "ote_utils"
    /\ \/ /\ model \in ConsolidatedModels
          /\ IDENTITY_MAP = find_identities(model, <<>>)
       \/ /\ model = ConsolidatedUserModel
          /\ IDENTITY_MAP = <<>>
    /\ write_object_keys_as_parameters = FALSE
    /\ InitLocals
    /\ threads = <<>>
    /\ InitForms
    /\ InitBuild

Loaded(m, identity_map) ==
    /\ run = 0
    /\ loads < MaxLoads
    /\ loads' = loads + 1
    /\ model' = m
    /\ IDENTITY_MAP' = identity_map
    /\ UNCHANGED <<impl, write_object_keys_as_parameters, locals, threads,
                   forms, self_model, pending, load_status, model_before,
                   file_pattern>>

\* self.model = yinsolidated.parse(config_model_file); self._find_identities()
ote_load_config_model(m) == Loaded(m, find_identities(m, IDENTITY_MAP))

\* self.model = yinsolidated.parse(user_model_file)
load_user_model(m) == Loaded(m, IDENTITY_MAP)

\* load_config_model on another converter of the process: its own model
\* attribute is set, and the identities go into the dictionary of the class.
other_load_config_model(m) == Loaded(model, find_identities(m, IDENTITY_MAP))

LoadsNext ==
    \/ \E m \in ConsolidatedModels : ote_load_config_model(m)
    \/ load_user_model(ConsolidatedUserModel)
    \/ \E m \in ConsolidatedModels : other_load_config_model(m)
    \/ convert_value_lines
    \/ \E line \in ValueLines : for_value_line(line)
    \/ ote_end_of_config_list

SpecLoads == LoadsInit /\ [][LoadsNext]_vars

(***************************************************************************)
(* netconfutils/configmodel.py: the YIN files a model is built from.       *)
(*                                                                         *)
(* An element is its tag, its attributes (a function from attribute names  *)
(* to values) and its children in document order.  A uses element and a    *)
(* grouping carry an id that tells the element from every other element of *)
(* its file; every other element, and every copy, has the id NoId.         *)
(***************************************************************************)
NoId == "-"

El(id, el_tag, attrib, children) ==
    [id |-> id, tag |-> el_tag, attrib |-> attrib, children |-> children]

PREFIX_ATTR == "{configmodel}prefix"
NS_ATTR == "{configmodel}ns"

NamespaceEl(uri) == El(NoId, "namespace", [uri |-> uri], <<>>)
PrefixEl(value) == El(NoId, "prefix", [value |-> value], <<>>)
LeafEl(name) == El(NoId, "leaf", [name |-> name], <<>>)
ContainerEl(name, children) ==
    El(NoId, "container", [name |-> name], children)
ListEl(name, key, children) ==
    El(NoId, "list", [name |-> name],
       <<El(NoId, "key", [value |-> key], <<>>)>> \o children)
AugmentEl(target, children) ==
    El(NoId, "augment", "target-node" :> target, children)
GroupingEl(id, name, children) ==
    El(id, "grouping", [name |-> name], children)
UsesEl(id, name) == El(id, "uses", [name |-> name], <<>>)
IdentityEl(name, base) ==
    El(NoId, "identity", [name |-> name],
       IF base = "" THEN <<>>
       ELSE <<El(NoId, "base", [name |-> base], <<>>)>>)
IdentityrefLeafEl(name, base) ==
    El(NoId, "leaf", [name |-> name],
       <<El(NoId, "type", [name |-> "identityref"],
            <<El(NoId, "base", [name |-> base], <<>>)>>)>>)

\* A file: its name and the children of its module element.
YinFile(name, module) == [name |-> name, module |-> module]

NS_IETF == "urn:ietf:params:xml:ns:yang:ietf-inet-types"

ModeChoice ==
    El(NoId, "choice", [name |-> "mode"],
       <<El(NoId, "case", [name |-> "m1"], <<LeafEl("fast")>>)>>)

\* module t128: container config { leaf name; choice mode {...} }
T128File ==
    YinFile("t128.yin",
            <<NamespaceEl(NS_T128), PrefixEl("t128"),
              ContainerEl("config", <<LeafEl("name"), ModeChoice>>)>>)

\* The same module, config taking its leaf from a grouping of the file.
T128UsesFile ==
    YinFile("t128.yin",
            <<NamespaceEl(NS_T128), PrefixEl("t128"),
              ContainerEl("config", <<UsesEl("u1", "common"), ModeChoice>>),
              GroupingEl("g1", "common", <<LeafEl("name")>>)>>)

\* The same module, config naming a grouping that no file defines.
T128UnresolvedFile ==
    YinFile("t128.yin",
            <<NamespaceEl(NS_T128), PrefixEl("t128"),
              ContainerEl("config",
                          <<LeafEl("name"), UsesEl("u1", "undefined"),
                            ModeChoice>>)>>)

\* module authy: augment /t128:config { container authority {...} }
AuthorityFile ==
    YinFile("authority.yin",
            <<NamespaceEl(NS_AUTHY), PrefixEl("authy"),
              AugmentEl("/t128:config",
                        <<ContainerEl("authority",
                                      <<LeafEl("name"),
                                        ListEl("router", "name",
                                               <<LeafEl("name")>>)>>)>>)>>)

RoutingModule ==
    <<NamespaceEl(NS_RT), PrefixEl("rt"),
      IdentityEl("routing-type", ""),
      IdentityEl("bgp", "routing-type"),
      AugmentEl("/t128:config",
                <<IdentityrefLeafEl("type", "routing-type")>>)>>

\* module rt: identities and augment /t128:config { leaf type }
RoutingFile == YinFile("routing.yin", RoutingModule)

\* The same module with a leaf named as the container it is added to.
RoutingAuthorityFile ==
    YinFile("routing.yin",
            RoutingModule
                \o <<AugmentEl("/t128:config/authy:authority",
                               <<LeafEl("authority")>>)>>)

\* module ospf: identity ospf { base rt:routing-type } and a leaf
OspfFile ==
    YinFile("ospf.yin",
            <<NamespaceEl(NS_OSPF), PrefixEl("ospf"),
              IdentityEl("ospf", "rt:routing-type"),
              AugmentEl("/t128:config", <<LeafEl("area")>>)>>)

\* A module of another vendor: its namespace does not hold the text t128.
InetTypesFile ==
    YinFile("ietf-inet-types.yin",
            <<NamespaceEl(NS_IETF), PrefixEl("inet"),
              GroupingEl("g1", "address", <<LeafEl("ip")>>)>>)

\* Files that declare no global namespace, or no global prefix; by their
\* names one is read last and the other first.
NoNamespaceFile ==
    YinFile("a-broken.yin", <<PrefixEl("broken"), ContainerEl("x", <<>>)>>)

NoPrefixFile ==
    YinFile("z-broken.yin",
            <<NamespaceEl(NS_T128 \o "/broken"), ContainerEl("x", <<>>)>>)

\* module t128 with a grouping that is defined after its use and that uses
\* a second grouping:
\*   container config { uses common; choice mode {...} }
\*   grouping common { leaf name; uses inner; }
\*   grouping inner { container deep; }
T128NestedUsesFile ==
    YinFile("t128.yin",
            <<NamespaceEl(NS_T128), PrefixEl("t128"),
              ContainerEl("config", <<UsesEl("u1", "common"), ModeChoice>>),
              GroupingEl("g1", "common",
                         <<LeafEl("name"), UsesEl("u2", "inner")>>),
              GroupingEl("g2", "inner", <<ContainerEl("deep", <<>>)>>)>>)

NS_EXT == "urn:example:params:xml:ns:yang:ext"

\* A module whose namespace does not hold the text of the root's prefix:
\*   augment /t128:config { container extra { leaf level; } }
ExtFile ==
    YinFile("ext.yin",
            <<NamespaceEl(NS_EXT), PrefixEl("ext"),
              AugmentEl("/t128:config",
                        <<ContainerEl("extra", <<LeafEl("level")>>)>>)>>)

\* module authy with a container under a choice and a case of the augment:
\*   augment /t128:config { container authority {...}
\*       choice kind { case k1 { container session { leaf timeout; } } } }
AuthorityChoiceFile ==
    YinFile("authority.yin",
            <<NamespaceEl(NS_AUTHY), PrefixEl("authy"),
              AugmentEl("/t128:config",
                        <<ContainerEl("authority",
                                      <<LeafEl("name"),
                                        ListEl("router", "name",
                                               <<LeafEl("name")>>)>>),
                          El(NoId, "choice", [name |-> "kind"],
                             <<El(NoId, "case", [name |-> "k1"],
                                  <<ContainerEl("session",
                                                <<LeafEl("timeout")>>)>>)>>)
                        >>)>>)

\* module rt with an augment of the container under the choice and case.
RoutingSessionFile ==
    YinFile("routing.yin",
            RoutingModule
                \o <<AugmentEl("/t128:config/authy:session",
                               <<LeafEl("rate")>>)>>)

\* module ospf with an identityref leaf that writes its base with a prefix.
OspfKindFile ==
    YinFile("ospf.yin",
            <<NamespaceEl(NS_OSPF), PrefixEl("ospf"),
              IdentityEl("ospf", "rt:routing-type"),
              AugmentEl("/t128:config",
                        <<LeafEl("area"),
                          IdentityrefLeafEl("kind", "rt:routing-type")>>)>>)

\* What a file pattern can match.
CompleteFiles == {T128File, AuthorityFile, RoutingFile, OspfFile}

FileSets ==
    {CompleteFiles,
     {T128File, AuthorityFile, RoutingAuthorityFile, OspfFile},
     {T128UsesFile, AuthorityFile, RoutingFile, OspfFile, InetTypesFile},
     {T128UnresolvedFile, AuthorityFile, RoutingFile, OspfFile},
     CompleteFiles \cup {NoNamespaceFile},
     CompleteFiles \cup {NoPrefixFile},
     {AuthorityFile, RoutingFile, OspfFile},
     {AuthorityFile, NoNamespaceFile},
     {T128NestedUsesFile, AuthorityFile, RoutingFile, OspfFile},
     CompleteFiles \cup {ExtFile},
     {T128File, AuthorityChoiceFile, RoutingSessionFile, OspfFile},
     {T128File, AuthorityFile, RoutingFile, OspfKindFile},
     {}}

\* The names of the files in descending order: 'z...' before 't...' before
\* 'a...'.  Position 1 is read first.
FileOrder ==
    <<"z-broken.yin", "t128.yin", "routing.yin", "ospf.yin",
      "ietf-inet-types.yin", "ext.yin", "authority.yin", "a-broken.yin">>

\* sorted(glob.glob(file_pattern), reverse=True)
RECURSIVE SortedReverse(_, _)
SortedReverse(files, i) ==
    IF i > Len(FileOrder) THEN <<>>
    ELSE (IF \E f \in files : f.name = FileOrder[i]
          THEN <<CHOOSE f \in files : f.name = FileOrder[i]>>
          ELSE <<>>) \o SortedReverse(files, i + 1)

(***************************************************************************)
(* netconfutils/configmodel.py: ConfigModel.                               *)
(***************************************************************************)
NoNamespaceError == "Could not find global namespace value in XML model"

NoPrefixError == "Could not find global namespace prefix in XML model"

\* The messages raised as ConfigModelParseError; every other failure of a
\* build is an exception of another type.
ConfigModelParseErrors == {NoNamespaceError, NoPrefixError}

NoneNotIterable == "TypeError: 'NoneType' object is not iterable"

NoneHasNoAppend ==
    "AttributeError: 'NoneType' object has no attribute 'append'"

\* ConfigModel.__init__; exc is the exception a step of parse has raised.
NewConfigModel(config_prefix, config_elem_name) ==
    [namespace_map |-> <<>>, container_map |-> <<>>, identity_map |-> <<>>,
     config_elem_name |-> config_elem_name, xml_chunks |-> <<>>,
     identity_elems |-> <<>>, config_root |-> <<>>,
     config_prefix |-> config_prefix, config_ns |-> "",
     identity_prefix_map |-> <<>>, identity_path_map |-> <<>>,
     exc |-> NoExc]

\* d[k] = v
Put(d, k, v) == (k :> v) @@ d

\* The children with the tag, in document order.
RECURSIVE WithTag(_, _)
WithTag(children, el_tag) ==
    IF children = <<>> THEN <<>>
    ELSE (IF Head(children).tag = el_tag THEN <<Head(children)>> ELSE <<>>)
             \o WithTag(Tail(children), el_tag)

\* elem.find(tag): <<the first child with the tag>>, or <<>> for None.
FindChild(e, el_tag) ==
    LET found == WithTag(e.children, el_tag)
    IN IF found = <<>> THEN <<>> ELSE <<found[1]>>

\* model.findall('//' + tag): the descendants with the tag, document order.
RECURSIVE Descendants(_, _)
Descendants(children, el_tag) ==
    IF children = <<>> THEN <<>>
    ELSE (IF Head(children).tag = el_tag THEN <<Head(children)>> ELSE <<>>)
             \o Descendants(Head(children).children, el_tag)
             \o Descendants(Tail(children), el_tag)

\* deepcopy(element): a new element, which no reference taken before names.
RECURSIVE deepcopy(_)
deepcopy(e) ==
    [e EXCEPT !.id = NoId,
              !.children = [i \in 1..Len(e.children) |->
                               deepcopy(e.children[i])]]

\* The element with the id among the children (the tree is not descended).
ChildWithId(children, id) ==
    CHOOSE c \in {children[i] : i \in 1..Len(children)} : c.id = id

\* parent_elem.append(copies...); parent_elem.remove(uses), for the parent
\* of the uses element with the id.
RECURSIVE ReplaceUses(_, _, _)
ReplaceUses(e, id, copies) ==
    IF \E i \in 1..Len(e.children) : e.children[i].id = id
    THEN LET i == CHOOSE i \in 1..Len(e.children) : e.children[i].id = id
         IN [e EXCEPT !.children =
                SubSeq(@, 1, i - 1) \o SubSeq(@, i + 1, Len(@)) \o copies]
    ELSE [e EXCEPT !.children =
             [i \in 1..Len(e.children) |->
                 ReplaceUses(e.children[i], id, copies)]]

\* groupings[name] = data_definition, over the top-level groupings
RECURSIVE GroupingIds(_, _)
GroupingIds(found, groupings) ==
    IF found = <<>> THEN groupings
    ELSE GroupingIds(Tail(found),
                     Put(groupings, Head(found).attrib.name, Head(found).id))

\* The second loop of _resolve_groupings, over the uses found before it.
RECURSIVE ResolveUses(_, _, _)
ResolveUses(root, groupings, uses) ==
    IF uses = <<>> THEN root
    ELSE IF Head(uses).attrib.name \in DOMAIN groupings
    THEN LET grouping ==
                 ChildWithId(root.children,
                             groupings[Head(uses).attrib.name])
             copies == [i \in 1..Len(grouping.children) |->
                           deepcopy(grouping.children[i])]
         IN ResolveUses(ReplaceUses(root, Head(uses).id, copies),
                        groupings, Tail(uses))
    ELSE ResolveUses(root, groupings, Tail(uses))

\* _resolve_groupings on the module element of a file.
resolve_groupings(root) ==
    ResolveUses(root,
                GroupingIds(WithTag(root.children, "grouping"), <<>>),
                Descendants(root.children, "uses"))

\* _get_global_namespace without its two checks: a missing element reads
\* as the empty value.
get_global_namespace_Unchecked(root) ==
    LET ns_elem == FindChild(root, "namespace")
        prefix_elem == FindChild(root, "prefix")
    IN [exc |-> NoExc,
        uri |-> IF ns_elem = <<>> THEN "" ELSE ns_elem[1].attrib.uri,
        prefix |-> IF prefix_elem = <<>> THEN ""
                   ELSE prefix_elem[1].attrib.value]

\* _get_global_namespace: the uri and the prefix, or the exception raised.
get_global_namespace(root) ==
    LET ns_elem == FindChild(root, "namespace")
        prefix_elem == FindChild(root, "prefix")
    IN IF ns_elem = <<>>
       THEN [exc |-> NoNamespaceError, uri |-> "", prefix |-> ""]
       ELSE IF prefix_elem = <<>>
       THEN [exc |-> NoPrefixError, uri |-> "", prefix |-> ""]
       ELSE [exc |-> NoExc, uri |-> ns_elem[1].attrib.uri,
             prefix |-> prefix_elem[1].attrib.value]

\* The namespaces of the files that hold the text t128.
UrisWithT128 == {NS_T128, NS_AUTHY, NS_RT, NS_OSPF, NS_T128 \o "/broken"}

\* text in uri, for the texts a config prefix can be: '' and 't128'.
Contains(uri, text) == text = "" \/ (text = "t128" /\ uri \in UrisWithT128)

\* _parse_xml_chunk_containers
RECURSIVE parse_xml_chunk_containers(_, _, _, _)
parse_xml_chunk_containers(cm, containers, file_ns_url, file_ns_prefix) ==
    IF containers = <<>> THEN cm
    ELSE parse_xml_chunk_containers(
             IF Head(containers).attrib.name = cm.config_elem_name
             THEN [cm EXCEPT !.config_root = <<Head(containers)>>,
                             !.config_prefix = file_ns_prefix,
                             !.config_ns = file_ns_url]
             ELSE cm,
             Tail(containers), file_ns_url, file_ns_prefix)

\* _parse_xml_chunk_augments
RECURSIVE parse_xml_chunk_augments(_, _, _, _)
parse_xml_chunk_augments(cm, augments, file_ns_url, file_ns_prefix) ==
    IF augments = <<>> THEN cm
    ELSE LET target_path == Head(augments).attrib["target-node"]
             augment == [Head(augments) EXCEPT !.attrib =
                            Put(Put(@, PREFIX_ATTR, file_ns_prefix),
                                NS_ATTR, file_ns_url)]
             chunks == IF target_path \in DOMAIN cm.xml_chunks
                       THEN cm.xml_chunks[target_path] ELSE <<>>
         IN parse_xml_chunk_augments(
                [cm EXCEPT !.xml_chunks =
                    Put(@, target_path, Append(chunks, augment))],
                Tail(augments), file_ns_url, file_ns_prefix)

\* The names that hold a colon, with what follows their first colon.
AfterColon == [token \in {"rt:routing-type"} |-> "routing-type"]

\* _strip_ns_prefix_if_present
strip_ns_prefix_if_present(token) ==
    IF token \in DOMAIN AfterColon THEN AfterColon[token] ELSE token

ModelNsEl(uri) == El(NoId, "modelns", [uri |-> uri], <<>>)

\* _parse_xml_chunk_identities
RECURSIVE parse_xml_chunk_identities(_, _, _)
parse_xml_chunk_identities(cm, identities, file_ns_url) ==
    IF identities = <<>> THEN cm
    ELSE LET identity == Head(identities)
             marked ==
                 IF FindChild(identity, "base") = <<>>
                 THEN [identity EXCEPT !.children =
                          Append(@, ModelNsEl(file_ns_url))]
                 ELSE LET i == CHOOSE i \in 1..Len(identity.children) :
                                   /\ identity.children[i].tag = "base"
                                   /\ \A j \in 1..(i - 1) :
                                          identity.children[j].tag # "base"
                      IN [identity EXCEPT
                             !.children[i].attrib.name =
                                 strip_ns_prefix_if_present(@),
                             !.children[i].children =
                                 Append(@, ModelNsEl(file_ns_url))]
         IN parse_xml_chunk_identities(
                [cm EXCEPT !.identity_elems = Append(@, marked)],
                Tail(identities), file_ns_url)

\* _parse_xml_file
parse_xml_file(cm, file) ==
    LET root == resolve_groupings(El(NoId, "module", <<>>, file.module))
        global == get_global_namespace(root)
    IN IF global.exc # NoExc THEN [cm EXCEPT !.exc = global.exc]
       ELSE IF ~Contains(global.uri, cm.config_prefix) THEN cm
       ELSE LET cm1 == parse_xml_chunk_containers(
                           cm, WithTag(root.children, "container"),
                           global.uri, global.prefix)
                cm2 == parse_xml_chunk_augments(
                           cm1, Descendants(root.children, "augment"),
                           global.uri, global.prefix)
            IN parse_xml_chunk_identities(
                   cm2, WithTag(root.children, "identity"), global.uri)

\* _combine_xml_chunks and _search_for_xml_chunks: the container with the
\* augments of its target path appended, and so for the containers below.
RECURSIVE combine_xml_chunks(_, _, _, _), search_for_xml_chunks(_, _, _, _)
\* A search that looks at the containers and lists among the children only,
\* not below augment, choice or case children.
search_for_xml_chunks_ChildrenOnly(xml_chunks, container, target_path, file_ns_prefix) ==
    [container EXCEPT !.children =
        [i \in 1..Len(container.children) |->
            LET child == container.children[i]
                ns_prefix == IF PREFIX_ATTR \in DOMAIN child.attrib
                             THEN child.attrib[PREFIX_ATTR]
                             ELSE file_ns_prefix
            IN IF child.tag \in {"container", "list"}
               THEN combine_xml_chunks(
                        xml_chunks, child,
                        target_path \o "/" \o ns_prefix \o ":"
                            \o child.attrib.name,
                        ns_prefix)
               ELSE child]]

combine_xml_chunks(xml_chunks, container, target_path, file_ns_prefix) ==
    search_for_xml_chunks(
        xml_chunks,
        [container EXCEPT !.children =
            @ \o (IF target_path \in DOMAIN xml_chunks
                  THEN xml_chunks[target_path] ELSE <<>>)],
        target_path, file_ns_prefix)

search_for_xml_chunks(xml_chunks, container, target_path, file_ns_prefix) ==
    [container EXCEPT !.children =
        [i \in 1..Len(container.children) |->
            LET child == container.children[i]
                ns_prefix == IF PREFIX_ATTR \in DOMAIN child.attrib
                             THEN child.attrib[PREFIX_ATTR]
                             ELSE file_ns_prefix
            IN IF child.tag \in {"augment", "choice", "case"}
               THEN search_for_xml_chunks(xml_chunks, child, target_path,
                                          ns_prefix)
               ELSE IF child.tag \in {"container", "list"}
               THEN combine_xml_chunks(
                        xml_chunks, child,
                        target_path \o "/" \o ns_prefix \o ":"
                            \o child.attrib.name,
                        ns_prefix)
               ELSE child]]

\* _define_namespace
define_namespace(cm, path, prefix, namespace) ==
    [cm EXCEPT !.namespace_map = Put(@, path, <<prefix, namespace>>),
               !.identity_prefix_map = Put(@, namespace, prefix)]

\* _define_container
define_container(cm, path, keys) ==
    [cm EXCEPT !.container_map = Put(@, path, keys)]

\* _append_elem_to_path
append_elem_to_path(path, child) == path \o "/" \o child.attrib.name

\* item.attrib['value'].split(), for the keys of one name the files hold
KeyNames(value) == <<value>>

RECURSIVE KeysOf(_)
KeysOf(children) ==
    IF children = <<>> THEN <<>>
    ELSE (IF Head(children).tag = "key"
          THEN KeyNames(Head(children).attrib.value) ELSE <<>>)
             \o KeysOf(Tail(children))

\* _parse_container
parse_container(cm, path, parent, child) ==
    LET child_path == append_elem_to_path(path, child)
        cm1 == IF parent.tag = "augment"
               THEN define_namespace(cm, child_path,
                                     parent.attrib[PREFIX_ATTR],
                                     parent.attrib[NS_ATTR])
               ELSE cm
    IN define_container(cm1, child_path, KeysOf(child.children))

\* _parse_leaf; augment_ancestor is what _get_closest_augment_ancestor
\* returns: <<the innermost augment above the leaf>>, or <<>> for None.
parse_leaf(cm, path, leaf, augment_ancestor) ==
    LET cm1 == IF augment_ancestor # <<>>
               THEN define_namespace(cm, append_elem_to_path(path, leaf),
                                     augment_ancestor[1].attrib[PREFIX_ATTR],
                                     augment_ancestor[1].attrib[NS_ATTR])
               ELSE cm
        type_elem == FindChild(leaf, "type")
        base_elem == IF type_elem = <<>> THEN <<>>
                     ELSE FindChild(type_elem[1], "base")
    IN IF /\ type_elem # <<>>
          /\ type_elem[1].attrib.name = "identityref"
          /\ base_elem # <<>>
       THEN [cm1 EXCEPT !.identity_path_map =
                Put(@, append_elem_to_path(path, leaf),
                    base_elem[1].attrib.name)]
       ELSE cm1

\* _walk_containers_recursive, from the i-th child of parent on.
RECURSIVE walk_containers_recursive(_, _, _, _, _)
walk_containers_recursive(cm, path, parent, augment_ancestor, i) ==
    IF i > Len(parent.children) THEN cm
    ELSE LET child == parent.children[i]
             cm1 ==
                 IF child.tag \in {"augment", "choice", "case"}
                 THEN walk_containers_recursive(
                          cm, path, child,
                          IF child.tag = "augment" THEN <<child>>
                          ELSE augment_ancestor,
                          1)
                 ELSE IF child.tag \in {"container", "list"}
                 THEN walk_containers_recursive(
                          parse_container(cm, path, parent, child),
                          append_elem_to_path(path, child), child,
                          augment_ancestor, 1)
                 ELSE IF child.tag \in {"leaf", "leaf-list"}
                 THEN parse_leaf(cm, path, child, augment_ancestor)
                 ELSE cm
         IN walk_containers_recursive(cm1, path, parent, augment_ancestor,
                                      i + 1)

UnknownIdentityNamespace == "KeyError: identity namespace"

\* _find_identities and _get_identity_prefix: the identities derived from
\* the base, each with the prefix recorded for its module's namespace.
RECURSIVE find_model_identities(_, _, _, _)
find_model_identities(cm, identity_elems, base_name, identity_values) ==
    IF identity_elems = <<>> \/ identity_values.exc # NoExc
    THEN identity_values
    ELSE LET child == Head(identity_elems)
             base_elem == FindChild(child, "base")
             uri == FindChild(base_elem[1], "modelns")[1].attrib.uri
             next ==
                 IF base_elem = <<>> \/ base_elem[1].attrib.name # base_name
                 THEN identity_values
                 ELSE IF uri \notin DOMAIN cm.identity_prefix_map
                 THEN [identity_values EXCEPT
                          !.exc = UnknownIdentityNamespace]
                 ELSE [identity_values EXCEPT
                          !.values = Put(@, child.attrib.name,
                                         cm.identity_prefix_map[uri])]
         IN find_model_identities(cm, Tail(identity_elems), base_name, next)

\* _parse_identities, over the paths not yet done.
RECURSIVE parse_identities(_, _)
parse_identities(cm, paths) ==
    IF paths = {} \/ cm.exc # NoExc THEN cm
    ELSE LET path == CHOOSE path \in paths : TRUE
             found == find_model_identities(
                          cm, cm.identity_elems, cm.identity_path_map[path],
                          [exc |-> NoExc, values |-> <<>>])
         IN parse_identities(
                IF found.exc # NoExc THEN [cm EXCEPT !.exc = found.exc]
                ELSE [cm EXCEPT !.identity_map = Put(@, path, found.values)],
                paths \ {path})

\* _parse_combined_xml
parse_combined_xml(cm) ==
    LET path == cm.config_elem_name
        cm1 == define_container(
                   define_namespace(cm, path, cm.config_prefix, cm.config_ns),
                   path, <<>>)
        cm2 == walk_containers_recursive(cm1, path, cm.config_root[1], <<>>, 1)
    IN parse_identities(cm2, DOMAIN cm2.identity_path_map)

\* The two calls of parse that follow its loop over the files.
combine_and_parse(cm) ==
    LET target_path == "/" \o cm.config_prefix \o ":" \o cm.config_elem_name
    IN IF cm.config_root = <<>>
       THEN [cm EXCEPT !.exc =
                IF /\ target_path \in DOMAIN cm.xml_chunks
                   /\ cm.xml_chunks[target_path] # <<>>
                THEN NoneHasNoAppend ELSE NoneNotIterable]
       ELSE parse_combined_xml(
                [cm EXCEPT !.config_root =
                    <<combine_xml_chunks(cm.xml_chunks, cm.config_root[1],
                                         target_path, cm.config_prefix)>>])

(***************************************************************************)
(* netconfutils: NetconfConverter.load_config_model.  self_model is the    *)
(* converter's attribute model: <<>> while it is not set, else the         *)
(* ConfigModel it refers to, which parse fills in place.                   *)
(***************************************************************************)
ConfigPrefixes == {"", "t128"}

BuildInit ==
    /\ InitConverter
    /\ InitLocals
    /\ threads = <<>>
    /\ InitForms
    /\ InitBuild

\* self.model = configmodel.ConfigModel(config_prefix, config_elem_name),
\* and parse up to its loop over the files.
load_config_model(files, config_prefix) ==
    /\ load_status \in {"idle", "loaded", "raised"}
    /\ loads < MaxLoads
    /\ loads' = loads + 1
    /\ model_before' = self_model
    /\ file_pattern' = files
    /\ self_model' = <<NewConfigModel(config_prefix, "config")>>
    /\ pending' = SortedReverse(files, 1)
    /\ load_status' = "parsing"
    /\ UNCHANGED <<converter, locals, threads, forms>>

\* One iteration of the loop of parse: self._parse_xml_file(filename).
for_filename ==
    /\ load_status = "parsing"
    /\ pending # <<>>
    /\ LET cm == parse_xml_file(self_model[1], Head(pending))
       IN /\ self_model' = <<cm>>
          /\ load_status' = IF cm.exc # NoExc THEN "raised" ELSE "parsing"
    /\ pending' = Tail(pending)
    /\ UNCHANGED <<converter, locals, threads, forms, loads, model_before,
                   file_pattern>>

\* The rest of parse: _combine_xml_chunks and _parse_combined_xml.
end_of_files ==
    /\ load_status = "parsing"
    /\ pending = <<>>
    /\ LET cm == combine_and_parse(self_model[1])
       IN /\ self_model' = <<cm>>
          /\ load_status' = IF cm.exc # NoExc THEN "raised" ELSE "loaded"
    /\ UNCHANGED <<converter, locals, threads, forms, loads, model_before,
                   file_pattern, pending>>

BuildNext ==
    \/ \E files \in FileSets, config_prefix \in ConfigPrefixes :
           load_config_model(files, config_prefix)
    \/ for_filename
    \/ end_of_files

SpecBuild == BuildInit /\ [][BuildNext]_vars

(***************************************************************************)
(* Vocabulary of the properties.                                           *)
(***************************************************************************)
\* A step of the for loop over the line config_line'.
LineProcessed ==
    /\ outcome.status = "running"
    /\ line_number' = line_number + 1

\* The tokens of a line that name an element and its value: the line's
\* tokens without a leading delete or create.
EntryTokens(line) ==
    LET tokens == StripQuotes(line.toks)
    IN IF TokStr(tokens[1]) \in {"delete", "create"} THEN Tail(tokens)
       ELSE tokens

IsExitLine(line) ==
    /\ ~is_line_empty_or_comment(line)
    /\ Len(line.toks) > 0
    /\ TokStr(StripQuotes(line.toks)[1]) = "exit"

\* A line that names an element (neither skipped nor an exit).
IsEntryLine(line) ==
    /\ ~is_line_empty_or_comment(line)
    /\ Len(line.toks) > 0
    /\ ~IsExitLine(line)
    /\ Len(EntryTokens(line)) > 0

EntryPath(stack, line) == XPathOf(stack, TokStr(EntryTokens(line)[1]))

\* The events the builder receives in the step.
NewEvents == SubSeq(builder'.events, Len(builder.events) + 1,
                    Len(builder'.events))

IsStart(e) == e.ev = "start"

NewStarts == SelectSeq(NewEvents, IsStart)

\* The error names the line the loop has just read.
ErrorNamesLine(o, number, line) ==
    /\ o.status = "raised"
    /\ o.error.line_number = <<number>>
    /\ o.error.line_text = <<LineText(line)>>

(***************************************************************************)
(* C1: a line whose first token (after an optional delete/create) is not   *)
(* exit and whose path is neither a container/list path nor a leaf path of *)
(* the schema makes the compile fail with a ConfigParseError that names    *)
(* the line, and the token is not emitted as an element.                   *)
(***************************************************************************)
C1_UnknownElementFails ==
    [][(/\ LineProcessed
        /\ IsEntryLine(config_line')
        /\ EntryPath(current_xml_token_stack, config_line')
              \notin (model.facts.containers \cup model.facts.leaves))
       => /\ ErrorNamesLine(outcome', line_number', config_line')
          /\ NewStarts = <<>>]_vars

(***************************************************************************)
(* C2: an exit line reached while the stack is empty makes the compile     *)
(* fail with a ConfigParseError that carries the number and the text of    *)
(* that exit line.                                                         *)
(***************************************************************************)
C2_UnmatchedExitNamesLine ==
    [][(/\ LineProcessed
        /\ IsExitLine(config_line')
        /\ current_xml_token_stack = <<>>)
       => ErrorNamesLine(outcome', line_number', config_line')]_vars

(***************************************************************************)
(* C3: when the input is exhausted with the stack not empty the compile    *)
(* fails and returns no tree: a tree is returned only with the stack (and  *)
(* the builder's open elements) empty.                                     *)
(***************************************************************************)
C3_MissingExitFails ==
    /\ outcome.status = "returned"
          => /\ current_xml_token_stack = <<>>
             /\ builder.element_stack = <<>>
             /\ outcome.root[Len(outcome.root) - 1]
                   = [ev |-> "end", tag |-> QName(NETCONF_NS, tag)]
    /\ outcome.status = "raised" => outcome.root = <<>>

C3_Witness ==
    /\ outcome.status = "raised"
    /\ line_number = Len(config_list)
    /\ current_xml_token_stack # <<>>
    /\ outcome.error.cause = "end tag mismatch"
    /\ \A i \in 1..Len(config_list) : ~IsExitLine(config_list[i])

(***************************************************************************)
(* C4: fail-fast, all-or-nothing.  The step that raises on line k ends the *)
(* compile with a ConfigParseError carrying k and the text of line k; no   *)
(* later line is processed and no tree is returned.                        *)
(***************************************************************************)
C4_FailFastNamesLine ==
    [][/\ (LineProcessed /\ outcome'.status = "raised")
            => /\ ErrorNamesLine(outcome', line_number', config_line')
               /\ outcome'.root = <<>>
       /\ (outcome.status = "raised" /\ run' = run)
            => UNCHANGED <<current_xml_token_stack, builder, line_number,
                           outcome>>]_vars

(***************************************************************************)
(* C5: compiling the same input twice in succession on the same converter  *)
(* gives identical results: the same error, or trees equal event for       *)
(* event (names, namespace bindings, attributes, text).                    *)
(***************************************************************************)
C5_SecondCompileSame == (run = 2 /\ Finished) => outcome = previous

\* The second compile of config / type bgp / exit has returned its tree.
C5_Witness ==
    /\ run = 2
    /\ outcome.status = "returned"
    /\ previous.status = "returned"
    /\ config_list = <<Ln(<<Tok("config")>>),
                       Ln(<<Tok("type"), Tok("bgp")>>),
                       Ln(<<Tok("exit")>>)>>

(***************************************************************************)
(* C6.  Two compiles against the same built model, their per-line steps    *)
(* interleaved in any order: the result of each compile that has finished  *)
(* (tree or error) is the result the same config and root arguments give   *)
(* when compiled alone, and no step of either compile writes the model,    *)
(* the identity map or any other state of the converter.                   *)
(***************************************************************************)
ThreadFinished(c) == threads[c].outcome.status \in {"returned", "raised"}

ThreadArguments(c) ==
    CHOOSE arguments \in RootArguments : arguments.tag = threads[c].tag

ResultAsAlone ==
    \A c \in ThreadIds :
        ThreadFinished(c)
            => threads[c].outcome
                   = CompileAlone(ThreadArguments(c),
                                  threads[c].config_list).outcome

C6_ConcurrentCompilesIndependent ==
    /\ []ResultAsAlone
    /\ [][converter' = converter]_vars

\* One compile has opened config and is still in its loop while the other
\* ran from start to end and returned the tree of config ... exit.
C6_Witness ==
    /\ threads # <<>>
    /\ threads["t1"].outcome.status = "running"
    /\ threads["t1"].current_xml_token_stack = <<"config">>
    /\ threads["t2"].outcome.status = "returned"
    /\ threads["t2"].config_list = <<Ln(<<Tok("config")>>), Ln(<<Tok("exit")>>)>>

(***************************************************************************)
(* C7: namespace resolution is deepest-recorded-ancestor-wins.  The        *)
(* element a line opens at path D gets the namespace recorded for D when D *)
(* is in namespace_map, and otherwise the one recorded for the longest     *)
(* prefix of D that is in namespace_map.                                   *)
(***************************************************************************)
RECURSIVE DeepestRecorded(_, _)
DeepestRecorded(m, path) ==
    IF convert_stack_to_xpath(path) \in DOMAIN m.namespace_map
    THEN <<m.namespace_map[convert_stack_to_xpath(path)]>>
    ELSE IF Len(path) = 0 THEN <<>>
    ELSE DeepestRecorded(m, Front(path))

C7_DeepestRecordedAncestorWins ==
    [][(/\ impl = "netconfutils"
        /\ LineProcessed
        /\ IsEntryLine(config_line')
        /\ NewStarts # <<>>)
       => LET token == TokStr(EntryTokens(config_line')[1])
              recorded == DeepestRecorded(
                              model, Append(current_xml_token_stack, token))
          IN recorded # <<>>
                => NewStarts[1].tag = QName(recorded[1][2], token)]_vars

(***************************************************************************)
(* C8: a leaf line whose path is identity-typed and whose first value v is *)
(* an identity registered for the path is emitted with the text p:v, p the *)
(* prefix registered for v, followed by the other value tokens unchanged.  *)
(***************************************************************************)
\* The text written into the element the step opens: <<text>>, or <<>> when
\* no text is written.
NewElementText ==
    LET i == CHOOSE i \in 1..Len(NewEvents) : NewEvents[i].ev = "start"
    IN IF i < Len(NewEvents) /\ NewEvents[i + 1].ev = "data"
       THEN <<NewEvents[i + 1].text>> ELSE <<>>

IsIdentityLeafLine(stack, line) ==
    /\ IsEntryLine(line)
    /\ EntryPath(stack, line) \in DOMAIN model.facts.identities

HasRegisteredIdentity(stack, line) ==
    /\ IsIdentityLeafLine(stack, line)
    /\ Len(EntryTokens(line)) > 1
    /\ TokStr(EntryTokens(line)[2])
          \in DOMAIN model.facts.identities[EntryPath(stack, line)]

C8_IdentityValuePrefixed ==
    [][(/\ LineProcessed
        /\ HasRegisteredIdentity(current_xml_token_stack, config_line'))
       => LET entry == EntryTokens(config_line')
              path == EntryPath(current_xml_token_stack, config_line')
              v == TokStr(entry[2])
              p == model.facts.identities[path][v]
          IN /\ outcome'.status = "running"
             /\ NewStarts # <<>>
             /\ NewElementText =
                   <<Join(<<p \o ":" \o v>> \o TokStrs(Tail(Tail(entry))),
                          " ")>>]_vars

(***************************************************************************)
(* C9: an identity lookup miss is not an error.  A leaf line whose path is *)
(* identity-typed and whose value is not a registered identity, or which   *)
(* has no value, does not fail the compile; the leaf is emitted with its   *)
(* value unprefixed.                                                       *)
(***************************************************************************)
C9_IdentityMissIsNoError ==
    [][(/\ LineProcessed
        /\ IsIdentityLeafLine(current_xml_token_stack, config_line')
        /\ ~HasRegisteredIdentity(current_xml_token_stack, config_line'))
       => LET values == TokStrs(Tail(EntryTokens(config_line')))
          IN /\ outcome'.status = "running"
             /\ NewStarts # <<>>
             /\ \/ NewElementText = <<Join(values, " ")>>
                \/ values = <<>> /\ NewElementText = <<>>]_vars

(***************************************************************************)
(* C10: in a returned tree the elements below the root are, in order, the  *)
(* elements of the config's entry lines; an element carries the NETCONF    *)
(* operation attribute with value v exactly when its line began with v     *)
(* (delete or create), for containers and leaves alike, and the root       *)
(* carries no operation attribute.                                         *)
(***************************************************************************)
LineOperationAttrib(line) ==
    IF TokStr(StripQuotes(line.toks)[1]) \in {"delete", "create"}
    THEN {<<operation_elem_name, TokStr(StripQuotes(line.toks)[1])>>}
    ELSE {}

RECURSIVE StartsAtDepth(_, _, _, _)
StartsAtDepth(events, i, open, depth) ==
    IF i > Len(events) THEN 0
    ELSE IF events[i].ev = "start"
    THEN (IF open = depth THEN 1 ELSE 0)
             + StartsAtDepth(events, i + 1, open + 1, depth)
    ELSE IF events[i].ev = "end"
    THEN StartsAtDepth(events, i + 1, open - 1, depth)
    ELSE StartsAtDepth(events, i + 1, open, depth)

ChildrenOfRoot(events) == StartsAtDepth(events, 1, 0, 1)

C11_OneChildUnderRoot ==
    outcome.status = "returned" => ChildrenOfRoot(outcome.root) = 1

(***************************************************************************)
(* C12: the root of the tree is the element root_tag in the NETCONF base   *)
(* namespace, for the root_tag the caller gave; it is there before the     *)
(* first line is processed, no line changes it, and it carries exactly the *)
(* attributes the caller supplied.                                         *)
(***************************************************************************)
RootElement ==
    [ev |-> "start", tag |-> QName(NETCONF_NS, tag), attrib |-> attributes,
     nsmap |-> {}]

C12_RootIsSynthesized ==
    /\ outcome.status = "running" => builder.events[1] = RootElement
    /\ outcome.status = "returned"
          => /\ outcome.root[1] = RootElement
             /\ StartsAtDepth(outcome.root, 1, 0, 0) = 1

\* The ote_utils converter has returned a filter tree built from at least a
\* container line and its exit, the root carrying type="subtree".
C12_Witness ==
    /\ impl = "ote_utils"
    /\ outcome.status = "returned"
    /\ tag = "filter"
    /\ attributes = {<<QName("", "type"), "subtree">>}
    /\ outcome.root[1].attrib = {<<QName("", "type"), "subtree">>}
    /\ ChildrenOfRoot(outcome.root) = 1

(***************************************************************************)
(* C14: a line that is empty or begins with # changes nothing.  The step   *)
(* over such a line leaves the stack, the builder and the outcome as they  *)
(* were, and a finished compile succeeds or fails, and returns the tree,   *)
(* exactly as the compile of the same config without those lines.          *)
(***************************************************************************)
\* The line has no character at all, or its first character is #.
IsBlankOrHashLine(line) ==
    \/ LineText(line) = ""
    \/ /\ ~line.lead
       /\ Len(line.toks) > 0
       /\ ~line.toks[1].lq
       /\ line.toks[1].w \in HashWords

IsConfigLine(line) == ~IsBlankOrHashLine(line)

CallArguments == CHOOSE arguments \in RootArguments : arguments.tag = tag

SameAsWithoutSkippedLines ==
    Finished =>
        LET alone == CompileAlone(CallArguments,
                                  SelectSeq(SubSeq(config_list, 1, line_number),
                                            IsConfigLine)).outcome
        IN /\ outcome.status = alone.status
           /\ outcome.root = alone.root
           /\ outcome.error.cause = alone.error.cause

C14_SkippedLinesChangeNothing ==
    /\ []SameAsWithoutSkippedLines
    /\ [][(LineProcessed /\ IsBlankOrHashLine(config_line'))
            => UNCHANGED <<current_xml_token_stack, builder, outcome>>]_vars

\* config / #comment / exit has been compiled to a tree.
C14_Witness ==
    /\ outcome.status = "returned"
    /\ config_list = <<Ln(<<Tok("config")>>), Ln(<<Tok("#comment")>>),
                       Ln(<<Tok("exit")>>)>>
    /\ ChildrenOfRoot(outcome.root) = 1

(***************************************************************************)
(* C19: stack discipline.  The stack is empty before the first line; a     *)
(* successfully processed container or list line pushes exactly its name,  *)
(* a successfully processed exit pops exactly one frame, a leaf line and a *)
(* skipped line leave the stack as it was; so after every prefix of lines  *)
(* the stack is what the pushes and pops of the prefix give, and it is     *)
(* empty whenever a tree is returned.                                      *)
(***************************************************************************)
\* The stack the schema gives after the lines: a container path pushes, an
\* exit pops, every other line leaves it.
RECURSIVE ExpectedStack(_, _, _)
ExpectedStack(m, stack, lines) ==
    IF lines = <<>> THEN stack
    ELSE LET line == Head(lines)
             next == IF IsBlankOrHashLine(line) THEN stack
                     ELSE IF IsExitLine(line) THEN Front(stack)
                     ELSE IF /\ IsEntryLine(line)
                             /\ EntryPath(stack, line) \in m.facts.containers
                     THEN Append(stack, TokStr(EntryTokens(line)[1]))
                     ELSE stack
         IN ExpectedStack(m, next, Tail(lines))

StackFollowsLines ==
    /\ outcome.status = "running"
          => current_xml_token_stack
                 = ExpectedStack(model, <<>>, SubSeq(config_list, 1, line_number))
    /\ outcome.status = "returned" => current_xml_token_stack = <<>>

ResolvedNamespace(path) ==
    IF impl = "netconfutils"
    THEN LET recorded == DeepestRecorded(model, path)
         IN IF recorded = <<>> THEN <<>> ELSE <<recorded[1][2]>>
    ELSE LET node == find_model_node(model, path, <<>>)
         IN IF node.exc # NoExc THEN <<>> ELSE <<node.namespace>>

IsEnd(e) == e.ev = "end"

C20_ExitResolvesParentPath ==
    [][(/\ LineProcessed
        /\ IsExitLine(config_line')
        /\ current_xml_token_stack # <<>>
        /\ outcome'.status = "running")
       => LET ends == SelectSeq(NewEvents, IsEnd)
              parent == ResolvedNamespace(Front(current_xml_token_stack))
          IN /\ current_xml_token_stack' = Front(current_xml_token_stack)
             /\ Len(ends) = 1
             /\ ends[1].tag
                    = QName(IF parent = <<>> THEN "" ELSE parent[1],
                            Last(current_xml_token_stack))]_vars

(***************************************************************************)
(* C13: the two input forms are equivalent.  A sequence of lines (lines    *)
(* with blanks before or after, or of blanks only, included) compiles to   *)
(* the same result as the text that joins the lines with line breaks: the  *)
(* same tree, or a failure on the same line.                               *)
(***************************************************************************)
C13_InputFormsEquivalent ==
    (list_result # Idle /\ text_result # Idle)
        => /\ list_result.status = text_result.status
           /\ list_result.root = text_result.root
           /\ list_result.error.line_number = text_result.error.line_number

(***************************************************************************)
(* Vocabulary of the properties about a build.                             *)
(***************************************************************************)
BuildEnded == load_status \in {"loaded", "raised"}

BuildRaised(errors) ==
    load_status = "raised" /\ self_model[1].exc \in errors

ModuleOf(file) == El(NoId, "module", <<>>, file.module)

LacksNamespaceOrPrefix(file) ==
    \/ FindChild(ModuleOf(file), "namespace") = <<>>
    \/ FindChild(ModuleOf(file), "prefix") = <<>>

HasRootContainer(file, root_element_name) ==
    \E i \in 1..Len(file.module) :
        /\ file.module[i].tag = "container"
        /\ file.module[i].attrib.name = root_element_name

HasUnresolvedUses(file) ==
    LET uses == Descendants(file.module, "uses")
        groupings == WithTag(file.module, "grouping")
    IN \E i \in 1..Len(uses) :
           \A j \in 1..Len(groupings) :
               groupings[j].attrib.name # uses[i].attrib.name

MissingContainerError == "Could not find config container in XML model"

(***************************************************************************)
(* C15: a build from a file set in which some file declares no global      *)
(* namespace, or no global prefix, ends by raising ConfigModelParseError,   *)
(* whatever the other files hold and wherever the file falls in the order   *)
(* the files are read in.                                                   *)
(***************************************************************************)
C15_FileWithoutNamespaceFailsBuild ==
    (BuildEnded /\ \E file \in file_pattern : LacksNamespaceOrPrefix(file))
        => BuildRaised(ConfigModelParseErrors)

\* The file without a namespace is the last one read, after the file of the
\* root container and its augments have been read, and the build has raised.
C15_Witness ==
    /\ load_status = "raised"
    /\ NoNamespaceFile \in file_pattern
    /\ T128File \in file_pattern
    /\ pending = <<>>
    /\ self_model[1].config_root # <<>>
    /\ self_model[1].exc = NoNamespaceError

(***************************************************************************)
(* C16: a build from a file set in which no file has a top-level container  *)
(* named root_element_name (every file declaring its namespace and prefix)  *)
(* ends by raising the ConfigModelParseError that reports the missing       *)
(* container, and no other kind of failure.                                 *)
(***************************************************************************)
C16_MissingRootIsSchemaError ==
    (/\ BuildEnded
     /\ \A file \in file_pattern :
            /\ ~LacksNamespaceOrPrefix(file)
            /\ ~HasRootContainer(file, self_model[1].config_elem_name))
        => BuildRaised({MissingContainerError})

(***************************************************************************)
(* C17: a failed build exposes no partial model.  When load_config_model    *)
(* has raised, the converter's model is what it was before the call: not    *)
(* set if it was not set, the model loaded before if there was one.         *)
(***************************************************************************)
C17_FailedBuildExposesNoPartialModel ==
    load_status = "raised" => self_model = model_before

(***************************************************************************)
(* C18: a build from a file with a uses that names no grouping of the file  *)
(* ends by raising ConfigModelParseError; the uses is never left in place   *)
(* or dropped.                                                              *)
(***************************************************************************)
C18_UnresolvedUsesFailsBuild ==
    (BuildEnded /\ \E file \in file_pattern : HasUnresolvedUses(file))
        => BuildRaised(ConfigModelParseErrors)

(***************************************************************************)
(* Vocabulary of the properties about values.                              *)
(***************************************************************************)
HasOperation(line) ==
    /\ Len(line.toks) > 1
    /\ TokStr(line.toks[1]) \in {"delete", "create"}

\* The line without its leading delete or create.
Remainder(line) == [line EXCEPT !.toks = Tail(@)]

\* The tokens of the line as written, without a leading delete or create.
WrittenTokens(line) ==
    IF HasOperation(line) THEN Tail(line.toks) ELSE line.toks

\* The value tokens of the line as written.
WrittenValue(line) == Tail(WrittenTokens(line))

IsQuotedValue(value) ==
    /\ Len(value) > 0
    /\ value[1].lq
    /\ Last(value).rq

IsUnquotedValue(value) ==
    /\ Len(value) > 0
    /\ \A i \in 1..Len(value) : ~value[i].lq /\ ~value[i].rq

\* The words of the value joined by single blanks, no quote kept.
Words(value) == Join([i \in 1..Len(value) |-> value[i].w], " ")

\* A line that names a leaf of the schema whose type is not identityref.
IsPlainLeafLine(stack, line) ==
    /\ ~is_line_empty_or_comment(line)
    /\ Len(WrittenTokens(line)) > 0
    /\ LET path == XPathOf(stack, TokStr(WrittenTokens(line)[1]))
       IN /\ path \in model.facts.leaves
          /\ path \notin DOMAIN model.facts.identities

WithoutOperation(events) ==
    [i \in 1..Len(events) |->
        IF events[i].ev = "start"
        THEN [events[i] EXCEPT !.attrib =
                 {a \in @ : a[1] # operation_elem_name}]
        ELSE events[i]]

(***************************************************************************)
(* C21: a line `delete R` or `create R` is processed as the line R would   *)
(* be in the same state, apart from the operation attribute: the same      *)
(* elements with the same names, namespace bindings and text, the same     *)
(* stack, and a failure exactly when R fails.                              *)
(***************************************************************************)
C21_OperationLineAsRemainder ==
    [][(/\ LineProcessed
        /\ HasOperation(config_line'))
       => LET st == CompileState(current_xml_token_stack, builder)
              alone == ProcessedLine(st, Remainder(config_line'))
          IN /\ (outcome'.status = "raised") = (alone.exc # NoExc)
             /\ outcome'.status = "running"
                  => /\ current_xml_token_stack' = alone.stack
                     /\ WithoutOperation(builder'.events)
                            = alone.builder.events]_vars

(***************************************************************************)
(* C22: a leaf line whose value is written in double quotes, the opening   *)
(* quote on the first value token and the closing quote on the last, is    *)
(* emitted with the quoted words joined by single blanks as its text, both *)
(* quotes removed; an unquoted value is emitted as its tokens joined by    *)
(* single blanks.                                                          *)
(***************************************************************************)
C22_QuotedValueIsOneText ==
    [][(/\ LineProcessed
        /\ IsPlainLeafLine(current_xml_token_stack, config_line')
        /\ \/ IsQuotedValue(WrittenValue(config_line'))
           \/ IsUnquotedValue(WrittenValue(config_line'))
        /\ outcome'.status = "running")
       => /\ NewStarts # <<>>
          /\ NewElementText = <<Words(WrittenValue(config_line'))>>]_vars

(***************************************************************************)
(* C29: a leaf whose type is not identityref is never given a prefix on    *)
(* its value: the text of the element is the value tokens joined by single *)
(* blanks, also when the value is the name of an identity of the model.    *)
(***************************************************************************)
C29_PlainLeafValueUnprefixed ==
    [][(/\ LineProcessed
        /\ IsPlainLeafLine(current_xml_token_stack, config_line')
        /\ IsUnquotedValue(WrittenValue(config_line'))
        /\ outcome'.status = "running")
       => /\ NewStarts # <<>>
          /\ NewElementText
                = <<Join(TokStrs(WrittenValue(config_line')), " ")>>]_vars

(***************************************************************************)
(* C28: after every successfully processed line the elements the builder   *)
(* has open below the root are, one to one and in order, the names on the  *)
(* stack; and every exit closes the innermost open element under exactly   *)
(* the qualified name it was opened with, so that no exit of a well-nested *)
(* config fails with an end-tag mismatch.                                  *)
(***************************************************************************)
OpenBelowRoot == Tail(builder.element_stack)

OpenElementsAreStack ==
    outcome.status = "running"
        => /\ builder.element_stack # <<>>
           /\ builder.element_stack[1] = QName(NETCONF_NS, tag)
           /\ [i \in 1..Len(OpenBelowRoot) |-> OpenBelowRoot[i].name]
                  = current_xml_token_stack

C28_ExitClosesWhatWasOpened ==
    /\ []OpenElementsAreStack
    /\ [][(/\ LineProcessed
           /\ IsExitLine(config_line')
           /\ current_xml_token_stack # <<>>)
          => /\ outcome'.status = "running"
             /\ SelectSeq(NewEvents, IsEnd)
                    = <<[ev |-> "end", tag |-> Last(builder.element_stack)]>>
             /\ builder'.element_stack = Front(builder.element_stack)]_vars

\* An exit has closed authority, opened in the namespace of its module,
\* inside config, in the schema that also has a leaf of that name.
C28_Witness ==
    /\ outcome.status = "running"
    /\ Len(config_list) = 3
    /\ line_number = 3
    /\ config_list[2] = Ln(<<Tok("authority")>>)
    /\ IsExitLine(config_line)
    /\ current_xml_token_stack = <<"config">>
    /\ model.facts = SchemaFacts({"config/authority/authority"})
    /\ Len(builder.element_stack) = 2

(***************************************************************************)
(* C30: there is no process-wide mutable state.  A compile depends only on *)
(* the model most recently loaded into its converter and on the input:     *)
(* every line is processed as it is in a process in which that load is the *)
(* only one made, whatever was loaded before it or into another converter. *)
(***************************************************************************)
\* The identities a process holds in which the load of m is the only load.
IdentitiesOf(m) == find_identities(m, <<>>)

C30_NoProcessWideState ==
    [][(/\ LineProcessed
        /\ impl = "ote_utils"
        /\ ~is_line_empty_or_comment(config_line'))
       => LET st == CompileState(current_xml_token_stack, builder)
              alone == ote_process_config_line(model, IdentitiesOf(model), st,
                                               config_line')
          IN /\ (outcome'.status = "raised") = (alone.exc # NoExc)
             /\ current_xml_token_stack' = alone.stack
             /\ builder' = alone.builder]_vars

(***************************************************************************)
(* Vocabulary of the properties about the built model.                     *)
(***************************************************************************)
BuildLoaded == load_status = "loaded"

\* The names of the groupings the files of the build define.
IsGrouping(e) == e.tag = "grouping"

GroupingNames ==
    UNION {{file.module[i].attrib.name :
                i \in {j \in 1..Len(file.module) :
                          IsGrouping(file.module[j])}}
              : file \in file_pattern}

SeqToSet(seq) == {seq[i] : i \in 1..Len(seq)}

\* The uses elements of the tree the path walk goes through.
WalkedUses ==
    IF self_model = <<>> \/ self_model[1].config_root = <<>> THEN {}
    ELSE SeqToSet(Descendants(self_model[1].config_root, "uses"))

(***************************************************************************)
(* C23: after the groupings of a file are inlined, no uses that names a    *)
(* grouping defined in the file is left in the tree that is walked later,  *)
(* whether the grouping is defined before or after its use and also when   *)
(* the grouping itself holds a uses.                                       *)
(***************************************************************************)
C23_NoResolvableUsesLeft ==
    \A uses \in WalkedUses : uses.attrib.name \notin GroupingNames

(***************************************************************************)
(* C25: every augment of every file of the set is staged under its target  *)
(* with the namespace and the prefix of its own file, wherever the file    *)
(* falls in the order of reading and whatever its namespace URI is.        *)
(***************************************************************************)
IsStaged(cm, file, augment) ==
    LET target == augment.attrib["target-node"]
        uri == FindChild(ModuleOf(file), "namespace")[1].attrib.uri
        prefix == FindChild(ModuleOf(file), "prefix")[1].attrib.value
    IN /\ target \in DOMAIN cm.xml_chunks
       /\ \E chunk \in SeqToSet(cm.xml_chunks[target]) :
              /\ chunk.attrib[NS_ATTR] = uri
              /\ chunk.attrib[PREFIX_ATTR] = prefix
              /\ chunk.children = augment.children

C25_EveryAugmentStaged ==
    BuildLoaded
        => \A file \in file_pattern :
               \A augment \in SeqToSet(Descendants(file.module, "augment")) :
                   IsStaged(self_model[1], file, augment)

(***************************************************************************)
(* The containers, lists and leaves below an element, each with its path:  *)
(* choice and case children add no segment; what an augment child brings   *)
(* is left out when below_augments is FALSE.  aug is <<the innermost       *)
(* augment above>>, wrapped is whether only choice and case elements lie   *)
(* between it and the element.                                             *)
(***************************************************************************)
RECURSIVE Contents(_, _, _, _, _)
Contents(e, path, aug, wrapped, below_augments) ==
    UNION {LET child == e.children[i]
               child_path == path \o "/" \o child.attrib.name
           IN IF child.tag = "augment"
              THEN IF below_augments
                   THEN Contents(child, path, <<child>>, TRUE, TRUE)
                   ELSE {}
              ELSE IF child.tag \in {"choice", "case"}
              THEN Contents(child, path, aug, wrapped, below_augments)
              ELSE IF child.tag \in {"container", "list"}
              THEN {[kind |-> "container", path |-> child_path, aug |-> aug,
                     at_target |-> wrapped]}
                       \cup Contents(child, child_path, aug, FALSE,
                                     below_augments)
              ELSE IF child.tag \in {"leaf", "leaf-list"}
              THEN {[kind |-> "leaf", path |-> child_path, aug |-> aug,
                     at_target |-> wrapped]}
              ELSE {}
           : i \in 1..Len(e.children)}

\* The containers and lists reachable from the root in the merged tree, each
\* with its accumulated prefix:name path and its path of names.
RECURSIVE Reachable(_, _, _, _)
Reachable(e, target, path, prefix) ==
    UNION {LET child == e.children[i]
           IN IF child.tag = "augment"
              THEN Reachable(child, target, path, child.attrib[PREFIX_ATTR])
              ELSE IF child.tag \in {"choice", "case"}
              THEN Reachable(child, target, path, prefix)
              ELSE IF child.tag \in {"container", "list"}
              THEN LET t == target \o "/" \o prefix \o ":"
                                \o child.attrib.name
                       p == path \o "/" \o child.attrib.name
                   IN {[target |-> t, path |-> p]}
                          \cup Reachable(child, t, p, prefix)
              ELSE {}
           : i \in 1..Len(e.children)}

ReachableTargets(cm) ==
    LET target == "/" \o cm.config_prefix \o ":" \o cm.config_elem_name
    IN {[target |-> target, path |-> cm.config_elem_name]}
           \cup Reachable(cm.config_root[1], target, cm.config_elem_name,
                          cm.config_prefix)

Recorded(cm, item, augment) ==
    IF item.kind = "container" THEN item.path \in DOMAIN cm.container_map
    ELSE /\ item.path \in DOMAIN cm.namespace_map
         /\ cm.namespace_map[item.path]
                = <<augment.attrib[PREFIX_ATTR], augment.attrib[NS_ATTR]>>

(***************************************************************************)
(* C24: augment merging is recursive and complete.  For every staged       *)
(* augment whose target is the accumulated prefix:name path of a container *)
(* or list reachable from the root in the merged tree (also one that       *)
(* another augment brings, or one under choice and case elements), the     *)
(* path walk records the containers and the leaves of the augment under    *)
(* the path of the target.                                                 *)
(***************************************************************************)
C24_AugmentsMergedRecursively ==
    BuildLoaded
        => \A place \in ReachableTargets(self_model[1]) :
               place.target \in DOMAIN self_model[1].xml_chunks
                   => \A augment
                          \in SeqToSet(self_model[1].xml_chunks[place.target]) :
                          \A item \in Contents(augment, place.path,
                                               <<augment>>, TRUE, FALSE) :
                              Recorded(self_model[1], item, augment)

\* A build has recorded the leaf of an augment whose target is a container
\* that another augment brings under a choice and a case.
C24_Witness ==
    /\ BuildLoaded
    /\ RoutingSessionFile \in file_pattern
    /\ "/t128:config/authy:session" \in DOMAIN self_model[1].xml_chunks
    /\ "config/session/rate" \in DOMAIN self_model[1].namespace_map
    /\ "config/session" \in DOMAIN self_model[1].container_map

(***************************************************************************)
(* C26: every container or list that an augment brings at its target, as a *)
(* child of the augment or under choice and case elements of the augment,  *)
(* has its own namespace_map entry: the prefix and the namespace of the    *)
(* augmenting file.                                                        *)
(***************************************************************************)
C26_AugmentContainerHasNamespace ==
    BuildLoaded
        => \A item \in Contents(self_model[1].config_root[1],
                                self_model[1].config_elem_name, <<>>, FALSE,
                                TRUE) :
               (item.kind = "container" /\ item.at_target)
                   => /\ item.path \in DOMAIN self_model[1].namespace_map
                      /\ self_model[1].namespace_map[item.path]
                             = <<item.aug[1].attrib[PREFIX_ATTR],
                                 item.aug[1].attrib[NS_ATTR]>>

(***************************************************************************)
(* C27: the base of an identityref leaf is matched after an optional       *)
(* prefix is stripped.  The leaf's identity_map entry holds every          *)
(* top-level identity of the files whose base, stripped, is the leaf's     *)
(* base, stripped, each with the prefix of the file that declares it.      *)
(***************************************************************************)
\* The identities of a file that are derived from the base.
DerivedIn(file, base) ==
    {identity \in SeqToSet(WithTag(file.module, "identity")) :
        /\ FindChild(identity, "base") # <<>>
        /\ strip_ns_prefix_if_present(
               FindChild(identity, "base")[1].attrib.name)
             = strip_ns_prefix_if_present(base)}

ExpectedIdentities(base) ==
    LET declared ==
            UNION {{<<identity.attrib.name,
                      FindChild(ModuleOf(file), "prefix")[1].attrib.value>>
                        : identity \in DerivedIn(file, base)}
                      : file \in file_pattern}
    IN [name \in {d[1] : d \in declared} |->
           (CHOOSE d \in declared : d[1] = name)[2]]

C27_BaseMatchedWithoutPrefix ==
    BuildLoaded
        => \A path \in DOMAIN self_model[1].identity_path_map :
               /\ path \in DOMAIN self_model[1].identity_map
               /\ self_model[1].identity_map[path]
                      = ExpectedIdentities(
                            self_model[1].identity_path_map[path])
====
